---------------------------- MODULE Spec2Model ----------------------------
(***************************************************************************)
(* Task execution and analysis pipeline of the log / database diagnosis    *)
(* services:                                                               *)
(*   - TaskExecutor (run tracker), in its two variants                     *)
(*       "log": three_apps_diagnosis/log_analyzer/task.py                  *)
(*       "db" : db_ops_analyzer/db_ops_analyzer/task.py                    *)
(*   - the chunked LangGraphAnalyzer of the log variant                    *)
(*   - the structured-data LangGraphAnalyzer of the db variant             *)
(*   - the line chunker _chunk_logs                                        *)
(* Each part has its own specification (SpecChunk, SpecAnalyze, SpecDb,    *)
(* SpecExec) over the variables it owns; the variables of the other parts  *)
(* are left unchanged by it.                                               *)
(***************************************************************************)
EXTENDS Integers, Sequences, FiniteSets, TLC

VARIABLES
    \* ---- chunker (_chunk_logs) ----
    ckPc,        \* "off" | "input" | "chunked"
    logs,        \* the input text: a sequence of characters
    chunk_size,  \* self.chunk_size
    chunks,      \* the list returned by _chunk_logs: a sequence of texts
    \* ---- chunked analyzer (log variant LangGraphAnalyzer) ----
    anPc,        \* "off" | "start" | "chunks" | "gathered" | "filtered" |
                 \* "synth" | "done" | "raised"
    anCfg,       \* [mode, concurrency, chunk_size]: the constructor's parameters
    anData,      \* the argument of analyze(data): [shape, text]
    anChunks,    \* chunks = self._chunk_logs(log_data)
    chState,     \* per chunk: "pending" | "inflight" | "done"
    analyses,    \* per chunk: the string _analyze_chunk returned (NoResult before)
    semaphore,   \* free permits of asyncio.Semaphore(self.concurrency)
    processed_count, \* the nonlocal counter of _analyze_concurrent / i + 1
    progress,    \* runs[run_id]['progress'] as written by _update_progress
    llmCalls,    \* chat.completions.create calls issued so far
    valid_analyses,  \* the filtered list
    report,      \* the value analyze returns (NoReport before)
    \* ---- structured-data analyzer (db variant LangGraphAnalyzer) ----
    dbPc,        \* "off" | "start" | "calling" | "done" | "raised"
    dbData,      \* the argument of analyze(data): the collected mapping
    dbCalls,     \* chat.completions.create requests sent so far
    dbOutcome,   \* how the (last) request ended (NoOutcome before)
    dbResult,    \* the value analyze returns (NoReport before)
    \* ---- task executor (TaskExecutor) ----
    variant,     \* "log" | "db": which task.py runs ("off" in the other parts)
    lock,        \* self._lock: the caller holding it, or NoHolder
    run_id_counter,  \* self._run_id_counter
    runs,        \* self.runs: run id -> run_info
    reports,     \* self.reports: report key -> report record
    clock,       \* datetime.now(), in whole seconds
    caller,      \* per calling thread: its position in execute_task_async
    worker,      \* per started thread (by run id): its position in _run_task
    issued,      \* run id -> how many calls of execute_task_async returned it
    gate,        \* run id -> self.concurrency of the analyzer built for the run
    \* ---- aggregating source (MultiSource) in one run ----
    msPc,        \* "off" | "config" | "collecting" | "joined" | "analyzed" |
                 \* "finished" | "failed"
    importable,  \* the plugin modules whose import succeeded
    sources_config,  \* self.sources_config
    call_chain,  \* whether self.call_chain is non-empty
    source_instances,  \* self.source_instances
    results,     \* what collect() of each instance visited so far did
    all_logs,    \* the local list of collect()
    msClock,     \* datetime.now(), in whole seconds
    stream,      \* the items the generator of collect() yielded
    msRun,       \* run_info of the run: [status, stage, content]
    \* ---- report listing (list_reports) ----
    lsPc,        \* "off" | "idle" | "listed"
    lsVariant,   \* "log" | "db": which task.py
    reports_dict,  \* self.reports as a dict in insertion order
    recorded,    \* how many runs recorded a report
    lsArgs,      \* the arguments of the call of list_reports
    lsResult,    \* the list it returned
    \* ---- launching runs (execute_task_async and the task configuration) ----
    lnVariant,   \* "log" | "db": which task.py ("off" in the other parts)
    loaded,      \* self.config: task name -> task definition
    loaded0,     \* the loaded configuration as it was read
    lnCounter,   \* self._run_id_counter
    lnRuns,      \* self.runs, with the task_config of each run's thread
    lnThreads,   \* the run ids whose thread was started
    lnCall,      \* the last call of execute_task_async and its result
    \* ---- database sources (collect of postgresql.py, mysql.py, redis.py) ----
    srcCfg,      \* the configured source: [kind, database, others]
    srcRun,      \* one collect() call and the connections it opened
    \* ---- report layout (_force_format_report of the db analyzer) ----
    fmt          \* one call: [pc, content, result]

chunkVars == <<ckPc, logs, chunk_size, chunks>>

anVars == <<anPc, anCfg, anData, anChunks, chState, analyses, semaphore,
            processed_count, progress, llmCalls, valid_analyses, report>>

dbVars == <<dbPc, dbData, dbCalls, dbOutcome, dbResult>>

exVars == <<variant, lock, run_id_counter, runs, reports, clock, caller,
            worker, issued, gate>>

msVars == <<msPc, importable, sources_config, call_chain, source_instances,
            results, all_logs, msClock, stream, msRun>>

lsVars == <<lsPc, lsVariant, reports_dict, recorded, lsArgs, lsResult>>

lnVars == <<lnVariant, loaded, loaded0, lnCounter, lnRuns, lnThreads, lnCall>>

srcVars == <<srcCfg, srcRun>>

fmtVars == <<fmt>>

vars == <<chunkVars, anVars, dbVars, exVars, msVars, lsVars, lnVars, srcVars, fmtVars>>

(***************************************************************************)
(* Bounds of the model.                                                    *)
(***************************************************************************)
MaxTextLen == 4
MaxChunkSize == 3
MaxChunks == 3
MaxConcurrency == 2
MaxRows == 1
MaxRuns == 2

MaxSources == 3

MaxReports == 2

MaxLaunches == 2
MaxOtherDbs == 2
MaxLines == 3

(***************************************************************************)
(* Text.  A text is a sequence of characters.  Three characters stand for  *)
(* the cases the chunker distinguishes: "a" (one UTF-8 byte), "U" (a       *)
(* character outside ASCII, three UTF-8 bytes) and "NL" (the line break    *)
(* '\n', one byte).                                                        *)
(***************************************************************************)
NL == "NL"

Chars == {"a", "U", NL}

RECURSIVE TextsUpTo(_)
TextsUpTo(n) ==
    IF n = 0 THEN {<<>>}
    ELSE LET shorter == TextsUpTo(n - 1)
         IN  shorter \cup {Append(t, c) : t \in {s \in shorter : Len(s) = n - 1}, c \in Chars}

\* len(line.encode('utf-8'))
RECURSIVE Utf8Len(_)
Utf8Len(text) ==
    IF text = <<>> THEN 0
    ELSE (IF Head(text) = "U" THEN 3 ELSE 1) + Utf8Len(Tail(text))

\* str.split('\n'): always at least one (possibly empty) line
RECURSIVE SplitLines(_)
SplitLines(text) ==
    IF text = <<>> THEN << <<>> >>
    ELSE LET rest == SplitLines(Tail(text))
         IN  IF Head(text) = NL
             THEN << <<>> >> \o rest
             ELSE << <<Head(text)>> \o Head(rest) >> \o Tail(rest)

\* '\n'.join(parts)
RECURSIVE JoinLines(_)
JoinLines(parts) ==
    IF parts = <<>> THEN <<>>
    ELSE IF Len(parts) = 1 THEN Head(parts)
    ELSE Head(parts) \o <<NL>> \o JoinLines(Tail(parts))

\* the size the loop adds for one line
LineSize(line) == Utf8Len(line)

FlushLastDropped(done, current_chunk) == done

\* if current_chunk: chunks.append('\n'.join(current_chunk))
FlushLast(done, current_chunk) ==
    IF current_chunk # <<>> THEN Append(done, JoinLines(current_chunk)) ELSE done

\* the for loop of _chunk_logs, from line i on
RECURSIVE ChunkLoop(_, _, _, _, _, _)
ChunkLoop(lines, i, done, current_chunk, current_size, size) ==
    IF i > Len(lines) THEN FlushLast(done, current_chunk)
    ELSE LET line == lines[i]
             line_size == LineSize(line)
         IN  IF current_size + line_size > size /\ current_chunk # <<>>
             THEN ChunkLoop(lines, i + 1, Append(done, JoinLines(current_chunk)),
                            <<line>>, line_size, size)
             ELSE ChunkLoop(lines, i + 1, done, Append(current_chunk, line),
                            current_size + line_size, size)

ChunkLogs(text, size) == ChunkLoop(SplitLines(text), 1, <<>>, <<>>, 0, size)

(***************************************************************************)
(* Specification of the chunker: any text, any chunk size, one call.       *)
(***************************************************************************)
ChunkInit ==
    /\ ckPc = "input"
    /\ logs \in TextsUpTo(MaxTextLen)
    /\ chunk_size \in 1..MaxChunkSize
    /\ chunks = <<>>

ChunkOff ==
    /\ ckPc = "off"
    /\ logs = <<>>
    /\ chunk_size = 1
    /\ chunks = <<>>

CallChunkLogs ==
    /\ ckPc = "input"
    /\ chunks' = ChunkLogs(logs, chunk_size)
    /\ ckPc' = "chunked"
    /\ UNCHANGED <<logs, chunk_size>>

ChunkNext == CallChunkLogs /\ UNCHANGED <<anVars, dbVars, exVars, msVars, lsVars, lnVars, srcVars, fmtVars>>

\* the lines of all chunks, in order
RECURSIVE LinesOfChunks(_)
LinesOfChunks(cs) ==
    IF cs = <<>> THEN <<>> ELSE SplitLines(Head(cs)) \o LinesOfChunks(Tail(cs))

\* C9: joining the chunks with '\n' in order gives back the input text, and
\* the lines of the chunks, taken in order, are exactly the lines of the
\* input (every line lies wholly in one chunk, none is split or reordered).
ChunkLossless ==
    ckPc = "chunked" =>
        /\ JoinLines(chunks) = logs
        /\ LinesOfChunks(chunks) = SplitLines(logs)
        /\ Len(chunks) >= 1

\* C9 witness: a text with an empty line and a trailing line break that is
\* cut into more than one chunk.
ChunkLosslessWitness ==
    /\ ckPc = "chunked"
    /\ Len(chunks) >= 2
    /\ Len(logs) >= 3
    /\ logs[Len(logs)] = NL
    /\ \E i \in 1..(Len(logs) - 1) : logs[i] = NL /\ logs[i + 1] = NL

\* C10 as claimed: every chunk has at most chunk_size bytes, line breaks
\* included, unless it is one single line longer than chunk_size.
ChunkWithinSize ==
    ckPc = "chunked" =>
        \A k \in 1..Len(chunks) :
            \/ Utf8Len(chunks[k]) <= chunk_size
            \/ /\ Len(SplitLines(chunks[k])) = 1
               /\ Utf8Len(chunks[k]) > chunk_size

(***************************************************************************)
(* The chunked analyzer (log variant): LangGraphAnalyzer.analyze.          *)
(*                                                                         *)
(* An LLM response is what `await client.chat.completions.create(...)`     *)
(* gives: a completion whose content is one of five kinds of text, or an   *)
(* API error, a timeout, or a malformed completion (no choices, or a null  *)
(* content) on which response.choices[0].message.content.strip() raises.   *)
(* A string the analyzer handles is a record [kind, body, len, of]: len is *)
(* the length of the stripped string, of the chunk it is about.            *)
(* The prompts are the default ones (self.prompts = {}), on which          *)
(* prompt_template.format cannot raise.                                    *)
(***************************************************************************)
Modes == {"sequential", "concurrent"}

\* if len(a.strip()) < 50
MinAnalysisLen == 50

TextBodies == {"none", "empty", "noerr", "short", "finding"}

FailureKinds == {"api_error", "timeout", "malformed"}

ChunkResponses ==
    {[status |-> "ok", body |-> b] : b \in TextBodies}
        \cup {[status |-> f, body |-> "-"] : f \in FailureKinds}

NoResult == [kind |-> "unset"]

NoReport == [kind |-> "unset"]

\* len(result.strip()) of a completion's content: "<NONE>", "", a text with
\* the phrase "未发现错误", a text just below the threshold, one just at it
BodyLen(body) ==
    CASE body = "none" -> 6
      [] body = "empty" -> 0
      [] body = "noerr" -> MinAnalysisLen + 10
      [] body = "short" -> MinAnalysisLen - 1
      [] OTHER -> MinAnalysisLen

\* len(str(e)): "Error code: 401 - {...}" of an API error, "Request timed
\* out.", "list index out of range"
MessageLen(failure) ==
    CASE failure = "api_error" -> MinAnalysisLen + 10
      [] failure = "timeout" -> 18
      [] OTHER -> 23

\* the parsing of the response left outside the try block
AnalyzeChunkParseUnguarded(i, resp) ==
    IF resp.status = "ok"
    THEN [kind |-> "text", body |-> resp.body, len |-> BodyLen(resp.body), of |-> i]
    ELSE IF resp.status = "malformed"
    THEN [kind |-> "raise", body |-> resp.status, len |-> 0, of |-> i]
    ELSE [kind |-> "failed", body |-> resp.status,
          len |-> 6 + MessageLen(resp.status), of |-> i]

\* _analyze_chunk: the request and the parsing of the response are both
\* inside try / except Exception, which returns f"分析失败: {str(e)}"
AnalyzeChunk(i, resp) ==
    IF resp.status = "ok"
    THEN [kind |-> "text", body |-> resp.body, len |-> BodyLen(resp.body), of |-> i]
    ELSE [kind |-> "failed", body |-> resp.status,
          len |-> 6 + MessageLen(resp.status), of |-> i]

\* the filter of _analyze_async: a result is kept unless it is empty, is the
\* "<NONE>" sentinel, holds a no-errors phrase, or is shorter than 50
Survives(a) ==
    /\ ~(a.len = 0 \/ (a.kind = "text" /\ a.body = "none"))
    /\ ~(a.kind = "text" /\ a.body = "noerr")
    /\ ~(a.len < MinAnalysisLen)

\* no filter: every result is kept
FilterAnalysesKeepsAll(list) == list

\* a filter that prepends what it keeps instead of appending it
FilterAnalysesPrepending(list) ==
    LET kept == SelectSeq(list, Survives)
    IN  [k \in 1..Len(kept) |-> kept[Len(kept) + 1 - k]]

FilterAnalyses(list) == SelectSeq(list, Survives)

\* return "未发现任何错误日志"
BlankReport == [kind |-> "canned_blank"]

\* return "## 分析结果 ... 未发现任何错误 ..."
NoErrorsReport == [kind |-> "canned_none"]

\* a fallback that returns the first analysis only
SummarizeResultFirstOnly(valid, resp) ==
    IF resp.status = "ok"
    THEN [kind |-> "synthesis", body |-> resp.body, parts |-> valid]
    ELSE [kind |-> "joined", body |-> resp.status, parts |-> <<valid[1]>>]

\* _summarize after the request: the stripped content, or on any exception
\* '\n\n---\n\n'.join(analyses)
SummarizeResult(valid, resp) ==
    IF resp.status = "ok"
    THEN [kind |-> "synthesis", body |-> resp.body, parts |-> valid]
    ELSE [kind |-> "joined", body |-> resp.status, parts |-> valid]

\* what analyze can return: always a string
ReportTextKinds == {"canned_blank", "canned_none", "text", "failed", "synthesis", "joined"}

\* TaskExecutor._update_progress
UpdateProgress(total, processed) ==
    [total_chunks |-> total,
     processed_chunks |-> processed,
     percentage |-> IF total > 0 THEN (processed * 100) \div total ELSE 0]

RECURSIVE LinesText(_)
LinesText(n) == IF n <= 1 THEN <<"a">> ELSE <<"a", NL>> \o LinesText(n - 1)

\* the inputs of analyze: the empty text, a text of line breaks only, and
\* texts of 1..MaxChunks lines; as one str or as an iterable of lines
AnalyzeInputs ==
    {[shape |-> sh, text |-> t] :
        sh \in {"str", "iter"},
        t \in {<<>>, <<NL>>} \cup {LinesText(n) : n \in 1..MaxChunks}}

\* log_data: data itself, or '\n'.join(data)
LogData(data) ==
    IF data.shape = "str" THEN data.text ELSE JoinLines(SplitLines(data.text))

\* not log_data.strip()
IsBlank(text) == \A k \in 1..Len(text) : text[k] = NL

NumChunks == Len(anChunks)

AnalyzeInit ==
    /\ anPc = "start"
    /\ anCfg \in [mode : Modes, concurrency : 1..MaxConcurrency, chunk_size : {1}]
    /\ anData \in AnalyzeInputs
    /\ anChunks = <<>>
    /\ chState = <<>>
    /\ analyses = <<>>
    /\ semaphore = 0
    /\ processed_count = 0
    /\ progress = UpdateProgress(0, 0)
    /\ llmCalls = 0
    /\ valid_analyses = <<>>
    /\ report = NoReport

AnalyzeOff ==
    /\ anPc = "off"
    /\ anCfg = [mode |-> "sequential", concurrency |-> 1, chunk_size |-> 1]
    /\ anData = [shape |-> "str", text |-> <<>>]
    /\ anChunks = <<>>
    /\ chState = <<>>
    /\ analyses = <<>>
    /\ semaphore = 0
    /\ processed_count = 0
    /\ progress = UpdateProgress(0, 0)
    /\ llmCalls = 0
    /\ valid_analyses = <<>>
    /\ report = NoReport

\* _analyze_async up to the dispatch: normalise, return early on blank
\* input, chunk, report progress 0 / total, set up the semaphore
AnalyzeStart ==
    /\ anPc = "start"
    /\ LET log_data == LogData(anData)
           cs == ChunkLogs(log_data, anCfg.chunk_size)
       IN  IF IsBlank(log_data)
           THEN /\ anPc' = "done"
                /\ report' = BlankReport
                /\ UNCHANGED <<anChunks, chState, analyses, semaphore, progress>>
           ELSE /\ anPc' = "chunks"
                /\ anChunks' = cs
                /\ chState' = [i \in 1..Len(cs) |-> "pending"]
                /\ analyses' = [i \in 1..Len(cs) |-> NoResult]
                /\ progress' = UpdateProgress(Len(cs), 0)
                /\ semaphore' = IF anCfg.mode = "concurrent" THEN anCfg.concurrency ELSE 0
                /\ UNCHANGED report
    /\ UNCHANGED <<anCfg, anData, processed_count, llmCalls, valid_analyses>>

\* a loop that submits a chunk without awaiting the one before
CanSubmitSequentialEager(i) ==
    /\ anPc = "chunks"
    /\ anCfg.mode = "sequential"
    /\ chState[i] = "pending"

\* the for loop of _analyze_sequential is at chunk i and nothing is awaited
CanSubmitSequential(i) ==
    /\ anPc = "chunks"
    /\ anCfg.mode = "sequential"
    /\ \A j \in 1..NumChunks : chState[j] # "inflight"
    /\ chState[i] = "pending"
    /\ \A j \in 1..(i - 1) : chState[j] = "done"

\* a gate that admits every task at once
SemaphoreUnbounded(permits) == TRUE

\* asyncio.Semaphore: `async with semaphore` is entered only while a permit
\* is left
SemaphoreFree(permits) == permits > 0

\* chunk i waits at `async with semaphore` and a permit is free
CanAdmit(i) ==
    /\ anPc = "chunks"
    /\ anCfg.mode = "concurrent"
    /\ SemaphoreFree(semaphore)
    /\ chState[i] = "pending"

\* the request of chunk i is awaited; it resolves in one of ChunkResponses
CanResolve(i) ==
    /\ anPc = "chunks"
    /\ chState[i] = "inflight"

\* the loop has ended / asyncio.gather has all results
AllResolved ==
    /\ anPc = "chunks"
    /\ \A i \in 1..NumChunks : chState[i] = "done"

\* _analyze_sequential: await self._analyze_chunk(chunk) for the next chunk
SequentialSubmit ==
    /\ \E i \in 1..NumChunks :
        /\ CanSubmitSequential(i)
        /\ chState' = [chState EXCEPT ![i] = "inflight"]
    /\ llmCalls' = llmCalls + 1
    /\ UNCHANGED <<anPc, anCfg, anData, anChunks, analyses, semaphore,
                   processed_count, progress, valid_analyses, report>>

\* _analyze_sequential: the request resolves; append, report i + 1 / total
SequentialResolve ==
    /\ anCfg.mode = "sequential"
    /\ \E i \in 1..NumChunks, resp \in ChunkResponses :
        /\ CanResolve(i)
        /\ LET result == AnalyzeChunk(i, resp)
           IN  IF result.kind = "raise"
               THEN /\ anPc' = "raised"
                    /\ UNCHANGED <<chState, analyses, progress>>
               ELSE /\ analyses' = [analyses EXCEPT ![i] = result]
                    /\ chState' = [chState EXCEPT ![i] = "done"]
                    /\ progress' = UpdateProgress(NumChunks, i)
                    /\ UNCHANGED anPc
    /\ UNCHANGED <<anCfg, anData, anChunks, semaphore, processed_count,
                   llmCalls, valid_analyses, report>>

\* analyze_with_semaphore: `async with semaphore` is entered and the request
\* of chunk i is issued
ConcurrentAdmit ==
    /\ \E i \in 1..NumChunks :
        /\ CanAdmit(i)
        /\ chState' = [chState EXCEPT ![i] = "inflight"]
    /\ semaphore' = semaphore - 1
    /\ llmCalls' = llmCalls + 1
    /\ UNCHANGED <<anPc, anCfg, anData, anChunks, analyses, processed_count,
                   progress, valid_analyses, report>>

\* the callback reporting the position of the chunk, as the sequential loop does
CallbackCountByIndex(i, count) == i

\* self.progress_callback(self.run_id, total, processed_count): the count
\* reported for chunk i is the shared counter just incremented
CallbackCount(i, count) == count

\* results collected as the tasks complete: the result of task i takes the
\* first place not taken yet
GatherByArrival(list, i, result) ==
    LET free == {k \in 1..Len(list) : list[k] = NoResult}
        first == CHOOSE k \in free : \A j \in free : k <= j
    IN  [list EXCEPT ![first] = result]

\* asyncio.gather(*tasks): the value returned by task i is at place i of the
\* list returned, whenever the task completes
Gather(list, i, result) == [list EXCEPT ![i] = result]

\* analyze_with_semaphore: the request of chunk i resolves; under the lock
\* processed_count += 1 and the callback; the semaphore is released.  No
\* await lies between these statements, so the event loop runs them as one.
ConcurrentResolve ==
    /\ anCfg.mode = "concurrent"
    /\ \E i \in 1..NumChunks, resp \in ChunkResponses :
        /\ CanResolve(i)
        /\ LET result == AnalyzeChunk(i, resp)
           IN  IF result.kind = "raise"
               THEN /\ anPc' = "raised"
                    /\ UNCHANGED <<chState, analyses, processed_count, progress>>
               ELSE /\ analyses' = Gather(analyses, i, result)
                    /\ chState' = [chState EXCEPT ![i] = "done"]
                    /\ processed_count' = processed_count + 1
                    /\ progress' = UpdateProgress(NumChunks,
                                        CallbackCount(i, processed_count + 1))
                    /\ UNCHANGED anPc
    /\ semaphore' = semaphore + 1
    /\ UNCHANGED <<anCfg, anData, anChunks, llmCalls, valid_analyses, report>>

\* _analyze_async: all chunks resolved (the loop ended / gather returned);
\* report progress total / total
AnalyzeGathered ==
    /\ AllResolved
    /\ progress' = UpdateProgress(NumChunks, NumChunks)
    /\ anPc' = "gathered"
    /\ UNCHANGED <<anCfg, anData, anChunks, chState, analyses, semaphore,
                   processed_count, llmCalls, valid_analyses, report>>

\* _analyze_async: filter; with no survivor return the canned report
AnalyzeFilter ==
    /\ anPc = "gathered"
    /\ LET valid == FilterAnalyses(analyses)
       IN  /\ valid_analyses' = valid
           /\ IF valid = <<>>
              THEN anPc' = "done" /\ report' = NoErrorsReport
              ELSE anPc' = "filtered" /\ UNCHANGED report
    /\ UNCHANGED <<anCfg, anData, anChunks, chState, analyses, semaphore,
                   processed_count, progress, llmCalls>>

\* _summarize without its shortcut
SingleAnalysisNever(list) == FALSE

\* _summarize: if len(analyses) == 1
SingleAnalysis(list) == Len(list) = 1

\* _summarize: one survivor is the report; otherwise issue the synthesis request
SummarizeStart ==
    /\ anPc = "filtered"
    /\ IF SingleAnalysis(valid_analyses)
       THEN /\ report' = valid_analyses[1]
            /\ anPc' = "done"
            /\ UNCHANGED llmCalls
       ELSE /\ llmCalls' = llmCalls + 1
            /\ anPc' = "synth"
            /\ UNCHANGED report
    /\ UNCHANGED <<anCfg, anData, anChunks, chState, analyses, semaphore,
                   processed_count, progress, valid_analyses>>

\* _summarize: the synthesis request resolves
SummarizeResolve ==
    /\ anPc = "synth"
    /\ \E resp \in ChunkResponses :
        report' = SummarizeResult(valid_analyses, resp)
    /\ anPc' = "done"
    /\ UNCHANGED <<anCfg, anData, anChunks, chState, analyses, semaphore,
                   processed_count, progress, llmCalls, valid_analyses>>

AnalyzeNext ==
    \/ AnalyzeStart /\ UNCHANGED <<chunkVars, dbVars, exVars, msVars, lsVars, lnVars, srcVars, fmtVars>>
    \/ SequentialSubmit /\ UNCHANGED <<chunkVars, dbVars, exVars, msVars, lsVars, lnVars, srcVars, fmtVars>>
    \/ SequentialResolve /\ UNCHANGED <<chunkVars, dbVars, exVars, msVars, lsVars, lnVars, srcVars, fmtVars>>
    \/ ConcurrentAdmit /\ UNCHANGED <<chunkVars, dbVars, exVars, msVars, lsVars, lnVars, srcVars, fmtVars>>
    \/ ConcurrentResolve /\ UNCHANGED <<chunkVars, dbVars, exVars, msVars, lsVars, lnVars, srcVars, fmtVars>>
    \/ AnalyzeGathered /\ UNCHANGED <<chunkVars, dbVars, exVars, msVars, lsVars, lnVars, srcVars, fmtVars>>
    \/ AnalyzeFilter /\ UNCHANGED <<chunkVars, dbVars, exVars, msVars, lsVars, lnVars, srcVars, fmtVars>>
    \/ SummarizeStart /\ UNCHANGED <<chunkVars, dbVars, exVars, msVars, lsVars, lnVars, srcVars, fmtVars>>
    \/ SummarizeResolve /\ UNCHANGED <<chunkVars, dbVars, exVars, msVars, lsVars, lnVars, srcVars, fmtVars>>

\* some step of analyze can be taken: the straight-line parts of
\* _analyze_async and _summarize always can; the per-chunk phase can when a
\* chunk can be submitted or admitted, a request is awaited, or all are done
AnalyzeCanStep ==
    \/ anPc \in {"start", "gathered", "filtered", "synth"}
    \/ AllResolved
    \/ \E i \in 1..NumChunks : CanSubmitSequential(i) \/ CanAdmit(i) \/ CanResolve(i)

DoneChunks == {i \in 1..NumChunks : chState[i] = "done"}

\* C11: in concurrent mode the processed_chunks a poller reads equals the
\* number of chunks whose request has resolved (one per completed chunk, in
\* whatever order they complete), never exceeds the number of chunks N and
\* is N once all have completed; and no step lowers it or raises it by more
\* than one.
ProcessedChunksCountsCompletions ==
    /\ [](anCfg.mode = "concurrent" /\ anPc \notin {"off", "start"} =>
            /\ progress.total_chunks = NumChunks
            /\ progress.processed_chunks = Cardinality(DoneChunks)
            /\ progress.processed_chunks <= NumChunks
            /\ anPc # "chunks" => progress.processed_chunks = NumChunks)
    /\ [][anCfg.mode = "concurrent" =>
            /\ progress'.processed_chunks >= progress.processed_chunks
            /\ progress'.processed_chunks <= progress.processed_chunks + 1]_vars

\* C11 witness: with more chunks than the bound, the third chunk has
\* completed, the first is still awaited, and one chunk is counted.
ProcessedChunksCountsCompletionsWitness ==
    /\ anCfg.mode = "concurrent"
    /\ anPc = "chunks"
    /\ NumChunks > anCfg.concurrency
    /\ chState[1] = "inflight"
    /\ chState[NumChunks] = "done"
    /\ progress.processed_chunks = 1

\* the chunks whose request has been issued and has not resolved
InFlightChunks == {i \in 1..NumChunks : chState[i] = "inflight"}

\* C12: in concurrent mode the number of per-chunk requests issued and not
\* yet resolved is at most self.concurrency in every state, also when there
\* are more chunks than permits.
InFlightWithinConcurrency ==
    anCfg.mode = "concurrent" =>
        /\ Cardinality(InFlightChunks) <= anCfg.concurrency
        /\ anPc = "chunks" => semaphore + Cardinality(InFlightChunks) = anCfg.concurrency

\* C12 witness: more chunks than permits; one chunk has completed, its
\* permit was taken by the chunk that waited at the gate, and every permit
\* is in use again.
InFlightWithinConcurrencyWitness ==
    /\ anCfg.mode = "concurrent"
    /\ anPc = "chunks"
    /\ NumChunks > anCfg.concurrency
    /\ anCfg.concurrency > 1
    /\ Cardinality(InFlightChunks) = anCfg.concurrency
    /\ semaphore = 0
    /\ DoneChunks # {}

\* the chunks whose result passes the filter
SurvivingChunks == {i \in 1..NumChunks : Survives(analyses[i])}

\* C13: when analyze has returned on a non-blank input and no per-chunk
\* result passed the filter, the report is the canned no-errors report and
\* exactly N requests were made, one per chunk and none for a synthesis.
ZeroSurvivorsCanned ==
    (anPc = "done" /\ NumChunks > 0 /\ SurvivingChunks = {}) =>
        /\ report = NoErrorsReport
        /\ llmCalls = NumChunks

\* C13 witness: several chunks, every one answered with the "<NONE>"
\* sentinel; analyze returned the canned report after N requests.
ZeroSurvivorsCannedWitness ==
    /\ anPc = "done"
    /\ NumChunks > 1
    /\ \A i \in 1..NumChunks : analyses[i].kind = "text" /\ analyses[i].body = "none"
    /\ report = NoErrorsReport
    /\ llmCalls = NumChunks

\* C14: when analyze has returned and exactly one per-chunk result passed
\* the filter, the report is that chunk's result itself and exactly N
\* requests were made (no synthesis request), whichever chunk it was and in
\* either mode.
SingleSurvivorReturned ==
    (anPc = "done" /\ Cardinality(SurvivingChunks) = 1) =>
        /\ \A i \in SurvivingChunks : report = analyses[i]
        /\ llmCalls = NumChunks

\* C14 witness: three chunks analysed concurrently, only the third has a
\* finding (the first answered "<NONE>", the second failed); the report is
\* the third result, after three requests.
SingleSurvivorReturnedWitness ==
    /\ anPc = "done"
    /\ anCfg.mode = "concurrent"
    /\ NumChunks = 3
    /\ analyses[1].body = "none"
    /\ analyses[2].kind = "failed"
    /\ SurvivingChunks = {3}
    /\ report = analyses[3]
    /\ report.of = 3
    /\ llmCalls = 3

\* C15: the filter applied to its own output returns it unchanged, and
\* what it keeps is in the order of the input: valid_analyses holds exactly
\* the surviving results, each as it was, by increasing chunk position.
FilterIdempotentOrdered ==
    anPc \in {"filtered", "synth", "done"} =>
        /\ FilterAnalyses(valid_analyses) = valid_analyses
        /\ \A k, l \in 1..Len(valid_analyses) :
                k < l => valid_analyses[k].of < valid_analyses[l].of
        /\ \A k \in 1..Len(valid_analyses) :
                valid_analyses[k] = analyses[valid_analyses[k].of]
        /\ {valid_analyses[k].of : k \in 1..Len(valid_analyses)} = SurvivingChunks

\* C15 witness: of three results the first and the third were kept and
\* the second dropped.
FilterIdempotentOrderedWitness ==
    /\ anPc = "filtered"
    /\ NumChunks = 3
    /\ SurvivingChunks = {1, 3}
    /\ analyses[1] # analyses[3]
    /\ valid_analyses = <<analyses[1], analyses[3]>>

\* the list holds exactly the surviving per-chunk results, each as it was
\* returned, by increasing chunk position
SurvivorsInChunkOrder(list) ==
    /\ \A k, l \in 1..Len(list) : k < l => list[k].of < list[l].of
    /\ \A k \in 1..Len(list) : list[k] = analyses[list[k].of]
    /\ {list[k].of : k \in 1..Len(list)} = SurvivingChunks

\* C26: with two or more surviving per-chunk results exactly one more
\* request is made (N + 1 in all), on the surviving results in chunk order;
\* when that request succeeds the report is its content, when it fails the
\* report is the surviving results joined in chunk order.  With less than two
\* survivors no request is added.
SynthesisOnceOrJoined ==
    /\ anPc = "synth" =>
        /\ Len(valid_analyses) >= 2
        /\ SurvivorsInChunkOrder(valid_analyses)
        /\ llmCalls = NumChunks + 1
    /\ (anPc = "done" /\ Cardinality(SurvivingChunks) >= 2) =>
        /\ llmCalls = NumChunks + 1
        /\ report.kind \in {"synthesis", "joined"}
        /\ report.kind = "joined" <=> report.body \in FailureKinds
        /\ SurvivorsInChunkOrder(report.parts)
    /\ (anPc = "done" /\ Cardinality(SurvivingChunks) < 2) =>
        llmCalls = NumChunks

\* C26 witness: of three chunks the first and the third survived, the
\* synthesis request timed out, and analyze returned the two results joined
\* after four requests.
SynthesisOnceOrJoinedWitness ==
    /\ anPc = "done"
    /\ NumChunks = 3
    /\ SurvivingChunks = {1, 3}
    /\ report.kind = "joined"
    /\ report.body = "timeout"
    /\ report.parts = <<analyses[1], analyses[3]>>
    /\ llmCalls = 4

\* the per-chunk phase has started
ChunksDispatched == anPc \in {"chunks", "gathered", "filtered", "synth", "done"} /\ NumChunks > 0

\* C27: in both modes every chunk is submitted exactly once (pending, then
\* in flight, then resolved, one request each), a request that fails gives a
\* failure placeholder at the position of its own chunk and nothing else: no
\* other chunk's state or result changes in that step, the call is not
\* aborted, and the list of results has one entry per chunk.
ChunksIsolated ==
    /\ [](/\ anPc # "raised"
          /\ ChunksDispatched =>
                /\ Len(analyses) = NumChunks
                /\ \A i \in 1..NumChunks :
                    IF chState[i] = "done"
                    THEN analyses[i].of = i /\ analyses[i].kind \in {"text", "failed"}
                    ELSE analyses[i] = NoResult
                /\ anPc = "chunks" =>
                        llmCalls = Cardinality({i \in 1..NumChunks : chState[i] # "pending"})
                /\ anPc = "gathered" =>
                        llmCalls = NumChunks /\ DoneChunks = 1..NumChunks)
    /\ [][ChunksDispatched =>
            \A i \in 1..NumChunks :
                /\ chState[i] = "pending" => chState'[i] \in {"pending", "inflight"}
                /\ chState[i] = "inflight" => chState'[i] \in {"inflight", "done"}
                /\ chState[i] = "done" => chState'[i] = "done" /\ analyses'[i] = analyses[i]
                /\ chState'[i] # chState[i] =>
                        \A j \in 1..NumChunks \ {i} :
                            chState'[j] = chState[j] /\ analyses'[j] = analyses[j]]_vars

\* C27 witness: three chunks analysed concurrently; the request of the
\* second timed out, the requests of the first and the third returned a
\* finding; all three results are there after three requests.
ChunksIsolatedWitness ==
    /\ anPc = "gathered"
    /\ anCfg.mode = "concurrent"
    /\ NumChunks = 3
    /\ analyses[2].kind = "failed" /\ analyses[2].body = "timeout"
    /\ \A i \in {1, 3} : analyses[i].kind = "text" /\ analyses[i].body = "finding"
    /\ llmCalls = 3

\* C28: in sequential mode, while the chunks are analysed, the resolved
\* chunks are the first k ones, at most one request is in flight and it is
\* that of chunk k + 1, every later chunk is still unsubmitted, and the
\* progress last reported is k of N: the report for a chunk is made in the
\* step that resolves it, before the next chunk is submitted.
SequentialOneAtATime ==
    (anCfg.mode = "sequential" /\ anPc = "chunks") =>
        LET k == Cardinality(DoneChunks)
        IN  /\ DoneChunks = 1..k
            /\ Cardinality(InFlightChunks) <= 1
            /\ InFlightChunks \subseteq {k + 1}
            /\ progress = UpdateProgress(NumChunks, k)
            /\ llmCalls = k + Cardinality(InFlightChunks)

\* C28 witness: of three chunks the first has resolved and was reported
\* (1 of 3), the second is in flight, the third is not submitted yet.
SequentialOneAtATimeWitness ==
    /\ anCfg.mode = "sequential"
    /\ anPc = "chunks"
    /\ chState = <<"done", "inflight", "pending">>
    /\ progress.processed_chunks = 1
    /\ progress.total_chunks = 3
    /\ llmCalls = 2

\* C35: in concurrent mode the place of a result in the list of per-chunk
\* results is the place of its chunk in the list of chunks, in whatever order
\* the requests complete: while the requests are awaited the results present
\* are those of the completed chunks, each at its chunk's place, and once all
\* have completed (and from then on) result i is the analysis of chunk i for
\* every chunk, which is the list the sequential loop appends for the same
\* per-chunk outcomes; the filter keeps that order.
ResultsInSubmissionOrder ==
    (anCfg.mode = "concurrent" /\ anPc \notin {"off", "start", "raised"}
            /\ report.kind # "canned_blank") =>
        /\ Len(analyses) = NumChunks
        /\ \A i \in 1..NumChunks :
                IF chState[i] = "done"
                THEN analyses[i] # NoResult /\ analyses[i].of = i
                ELSE analyses[i] = NoResult
        /\ anPc \in {"gathered", "filtered", "synth", "done"} =>
                \A i \in 1..NumChunks : analyses[i].of = i
        /\ anPc \in {"filtered", "synth", "done"} =>
                \A j, k \in 1..Len(valid_analyses) :
                    j < k => valid_analyses[j].of < valid_analyses[k].of

\* C35 witness: of three chunks the second has completed while the first is
\* still awaited, and its result is at the second place
ResultsInSubmissionOrderWitness ==
    /\ anCfg.mode = "concurrent"
    /\ anPc = "chunks"
    /\ NumChunks = 3
    /\ chState[1] = "inflight" /\ chState[2] = "done" /\ chState[3] = "pending"
    /\ analyses[2].of = 2 /\ analyses[1] = NoResult

\* the values of the concurrency query parameter of the run endpoint, an
\* Optional[int] copied unchecked into the analyzer's params, for which
\* asyncio.Semaphore(self.concurrency) is constructed (a negative value
\* makes the constructor raise ValueError)
AcceptedConcurrency == 0..MaxConcurrency

\* an analyzer constructed from the params the run endpoint passes on
EndpointAnalyzeInit ==
    /\ anPc = "start"
    /\ anCfg \in [mode : Modes, concurrency : AcceptedConcurrency, chunk_size : {1}]
    /\ anData \in AnalyzeInputs
    /\ anChunks = <<>>
    /\ chState = <<>>
    /\ analyses = <<>>
    /\ semaphore = 0
    /\ processed_count = 0
    /\ progress = UpdateProgress(0, 0)
    /\ llmCalls = 0
    /\ valid_analyses = <<>>
    /\ report = NoReport

\* a step of analyze leaves the other parts alone
AnalyzeOnly ==
    UNCHANGED <<chunkVars, dbVars, exVars, msVars, lsVars, lnVars, srcVars, fmtVars>>

\* the event loop runs every task that can run, and every request awaited
\* resolves (with content, an error or a timeout)
AnalyzeFairness ==
    /\ WF_vars(AnalyzeStart /\ AnalyzeOnly)
    /\ WF_vars(SequentialSubmit /\ AnalyzeOnly)
    /\ WF_vars(SequentialResolve /\ AnalyzeOnly)
    /\ WF_vars(ConcurrentAdmit /\ AnalyzeOnly)
    /\ WF_vars(ConcurrentResolve /\ AnalyzeOnly)
    /\ WF_vars(AnalyzeGathered /\ AnalyzeOnly)
    /\ WF_vars(AnalyzeFilter /\ AnalyzeOnly)
    /\ WF_vars(SummarizeStart /\ AnalyzeOnly)
    /\ WF_vars(SummarizeResolve /\ AnalyzeOnly)

\* C36 as claimed: a concurrent analysis, for every number of chunks and
\* every concurrency value the run endpoint accepts, eventually has every
\* chunk admitted and analysed, and analyze returns.
ConcurrentAlwaysTerminates ==
    (anCfg.mode = "concurrent" /\ anPc = "start") ~>
        (anPc = "done" /\ \A i \in 1..NumChunks : chState[i] = "done")

\* the values the analyzer passes to the progress callback are within the
\* bounds of the run record's progress: 0 <= processed <= total chunks and
\* 0 <= percentage <= 100, in both modes and whatever order requests resolve
CallbackInBounds ==
    /\ 0 <= progress.processed_chunks
    /\ progress.processed_chunks <= progress.total_chunks
    /\ 0 <= progress.percentage /\ progress.percentage <= 100
    /\ anPc \in {"chunks", "gathered", "filtered", "synth"} =>
            progress.total_chunks = NumChunks

(***************************************************************************)
(* The structured-data analyzer (db variant): LangGraphAnalyzer.analyze.   *)
(*                                                                         *)
(* data is the mapping a database Source collected: its database_type and  *)
(* the numbers of entries of its slow_queries, processlist, tables and     *)
(* errors lists.  The awaited request ends with a completion (whose        *)
(* content is a text, an empty string, or null; or which has no choices)   *)
(* or with one of the exceptions _analyze_async names.  The prompt is the  *)
(* default one, on which prompt_template.format cannot raise.              *)
(***************************************************************************)
\* AsyncOpenAI(..., max_retries=0)
ClientMaxRetriesDefault == 1 + 1

ClientMaxRetries == 0

NoOutcome == [kind |-> "unset"]

CallOutcomes ==
    {[kind |-> k] : k \in {"text", "empty_text", "null_content", "no_choices",
                           "outer_timeout", "http_timeout", "connect_error",
                           "api_error"}}

\* the failures the client itself retries while attempts are left
Retryable(outcome) == outcome.kind \in {"http_timeout", "connect_error", "api_error"}

\* the except clause that handles the outcome, in the order of the clauses:
\* asyncio.TimeoutError, httpx.TimeoutException, httpx.ConnectError,
\* OpenAIAPIError, Exception (IndexError of choices[0], AttributeError of
\* None.strip()); "none" when nothing is raised
HandlerOf(outcome) ==
    CASE outcome.kind = "outer_timeout" -> "timeout"
      [] outcome.kind = "http_timeout" -> "http_timeout"
      [] outcome.kind = "connect_error" -> "connect"
      [] outcome.kind = "api_error" -> "api"
      [] outcome.kind \in {"null_content", "no_choices"} -> "generic"
      [] OTHER -> "none"

\* _format_error_report(error_msg, data)
FormatErrorReport(category, detail, data) ==
    [kind |-> "error_report",
     database_type |-> data.database_type,
     category |-> category,
     detail |-> detail,
     slow_queries |-> data.slow_queries,
     processlist |-> data.processlist,
     tables |-> data.tables]

\* _force_format_report(content): the layout pass over the completion's text
ForceFormatReport(content) == [text |-> content, layout |-> "forced"]

\* _format_report(analysis_result, data): header, statistics, analysis
FormatReport(analysis, data) ==
    [kind |-> "report",
     database_type |-> data.database_type,
     slow_queries |-> data.slow_queries,
     processlist |-> data.processlist,
     tables |-> data.tables,
     errors |-> data.errors,
     analysis |-> analysis]

\* the try block of _analyze_async once the request has ended
AnalyzeDatabaseResult(outcome, data) ==
    IF HandlerOf(outcome) = "none"
    THEN FormatReport(ForceFormatReport(outcome.kind), data)
    ELSE FormatErrorReport(HandlerOf(outcome), outcome.kind, data)

DbInputs ==
    [database_type : {"MySQL", "PostgreSQL"},
     slow_queries : 0..MaxRows,
     processlist : 0..MaxRows,
     tables : 0..MaxRows,
     errors : 0..MaxRows]

DbInit ==
    /\ dbPc = "start"
    /\ dbData \in DbInputs
    /\ dbCalls = 0
    /\ dbOutcome = NoOutcome
    /\ dbResult = NoReport

DbOff ==
    /\ dbPc = "off"
    /\ dbData = [database_type |-> "MySQL", slow_queries |-> 0, processlist |-> 0,
                 tables |-> 0, errors |-> 0]
    /\ dbCalls = 0
    /\ dbOutcome = NoOutcome
    /\ dbResult = NoReport

\* _analyze_async: serialise data, fill the prompt, send the request
DbAnalyzeStart ==
    /\ dbPc = "start"
    /\ dbPc' = "calling"
    /\ dbCalls' = dbCalls + 1
    /\ UNCHANGED <<dbData, dbOutcome, dbResult>>

\* the request ends: the client sends it again while it may retry;
\* otherwise the completion is formatted or the exception is handled
DbCallEnds ==
    /\ dbPc = "calling"
    /\ \E outcome \in CallOutcomes :
        IF Retryable(outcome) /\ dbCalls <= ClientMaxRetries
        THEN /\ dbCalls' = dbCalls + 1
             /\ dbOutcome' = outcome
             /\ UNCHANGED <<dbPc, dbResult>>
        ELSE /\ dbOutcome' = outcome
             /\ dbResult' = AnalyzeDatabaseResult(outcome, dbData)
             /\ dbPc' = "done"
             /\ UNCHANGED dbCalls
    /\ UNCHANGED dbData

DbNext ==
    \/ DbAnalyzeStart /\ UNCHANGED <<chunkVars, anVars, exVars, msVars, lsVars, lnVars, srcVars, fmtVars>>
    \/ DbCallEnds /\ UNCHANGED <<chunkVars, anVars, exVars, msVars, lsVars, lnVars, srcVars, fmtVars>>

\* the failure classes the claim lists
ClaimedFailureKinds ==
    {"outer_timeout", "http_timeout", "connect_error", "api_error",
     "null_content", "no_choices", "empty_text"}

\* C8 as claimed: one request per analyze call; every failure class, an
\* empty response included, gives an error report; a success gives the
\* formatted report; no exception leaves analyze.
DbOneCallErrorsReported ==
    /\ dbPc # "raised"
    /\ dbPc = "done" =>
        /\ dbCalls = 1
        /\ dbOutcome.kind \in ClaimedFailureKinds => dbResult.kind = "error_report"
        /\ dbOutcome.kind \notin ClaimedFailureKinds => dbResult.kind = "report"

\* C8 as amended: one request per analyze call, never an exception; a
\* timeout, connection error, API error or malformed completion (no choices,
\* null content) gives an error report naming that failure and the data's
\* counts; a completion with content, an empty string included, gives the
\* formatted report built from that content and the data.
DbOneCallFailuresReported ==
    /\ dbPc # "raised"
    /\ dbPc \in {"calling", "done"} => dbCalls = 1
    /\ dbPc = "done" =>
        /\ dbOutcome.kind \in ClaimedFailureKinds \ {"empty_text"} =>
            /\ dbResult.kind = "error_report"
            /\ dbResult.category = HandlerOf(dbOutcome)
            /\ dbResult.category # "none"
            /\ dbResult.detail = dbOutcome.kind
            /\ dbResult.database_type = dbData.database_type
        /\ dbOutcome.kind \in {"text", "empty_text"} =>
            /\ dbResult.kind = "report"
            /\ dbResult.analysis = ForceFormatReport(dbOutcome.kind)
            /\ dbResult.database_type = dbData.database_type

\* C8 witness: a call whose request hit a connection error has returned its
\* error report after one request.
DbOneCallFailuresReportedWitness ==
    /\ dbPc = "done"
    /\ dbOutcome.kind = "connect_error"
    /\ dbResult.kind = "error_report"
    /\ dbCalls = 1
    /\ dbData.tables > 0

(***************************************************************************)
(* The task executor: TaskExecutor of task.py, in both variants.           *)
(*                                                                         *)
(* Caller threads call execute_task_async; each call that resolves a task  *)
(* configuration allocates a run id under self._lock, registers the run    *)
(* record and starts one worker thread running _run_task.  A worker's      *)
(* writes to its run record and to the report registry are separate steps, *)
(* interleaved with the steps of the other threads; what a worker computes *)
(* on its own objects (plugin construction, collect, analyze, the sink     *)
(* loop) belongs to the step of the write that follows it, and its outcome *)
(* is chosen by the environment.                                           *)
(***************************************************************************)
Variants == {"log", "db"}

\* the threads that call execute_task_async
Callers == {"t1", "t2"}

NoHolder == "none"

\* a missing configuration: None or an empty mapping, both falsy
NoConfig == [source |-> "none", analyzer |-> "none", sinks |-> <<>>]

\* the task of the loaded configuration.  Of its sinks "file" is a registered
\* sink whose constructor succeeds, "broken" a registered sink whose
\* constructor raises on its parameters, "bogus" an unregistered name.
DailyConfig ==
    [source |-> "source", analyzer |-> "langgraph",
     sinks |-> <<"file", "bogus", "broken", "file">>]

ConfigTasks == [daily |-> DailyConfig]

\* the task_name arguments: a configured task and an unknown one
TaskArgs == {"daily", "ghost"}

\* the override_config arguments: none is passed
OverrideArgs == {NoConfig}

\* Config.get_task(task_name)
GetTask(task_name) ==
    IF task_name \in DOMAIN ConfigTasks THEN ConfigTasks[task_name] ELSE NoConfig

\* task_config = override_config or self.config.get_task(task_name)
ResolveConfig(task_name, override_config) ==
    IF override_config # NoConfig THEN override_config ELSE GetTask(task_name)

\* the label of a report key: container_name or 'all' (log), task_name (db)
KeyLabel(v, task_name) == IF v = "log" THEN "all" ELSE task_name

NoKey == <<"none", 0, "">>

\* report_key = f"{timestamp}_{container}" / f"{timestamp}_{task_name}"
ReportKey(timestamp, label) == <<"key", timestamp, label>>

\* str(run_id), the second key of the log variant
RunIdKey(run_id) == <<"id", run_id, "">>

NoTimestamp == -1

\* run_info as _create_run builds it
NewRun(v, run_id, task_name) ==
    [id |-> run_id,
     task_name |-> task_name,
     label |-> KeyLabel(v, task_name),
     status |-> "running",
     stage |-> "queued",
     finished_at |-> "null",
     error |-> "null",
     progress |-> IF v = "log"
                  THEN [total_chunks |-> 0, processed_chunks |-> 0, percentage |-> 0]
                  ELSE [percentage |-> 0, stage |-> "queued"],
     report_id |-> NoKey]

\* self.runs[run_id] = run_info, skipped
RegistryInsertSkipped(registry, run_id, run_info) == registry

\* self.runs[run_id] = run_info
RegistryInsert(registry, run_id, run_info) == (run_id :> run_info) @@ registry

\* with self._lock never blocking
LockIgnored(c) == TRUE

\* with self._lock: the lock can be taken
LockFree(c) == lock = NoHolder

IdleCaller ==
    [pc |-> "idle", task_name |-> "", task_config |-> NoConfig, run_id |-> 0]

\* the locals of a thread entering _run_task
NewWorker(task_config) ==
    [pc |-> "start", todo |-> <<>>, task_config |-> task_config,
     timestamp |-> NoTimestamp, sinks |-> <<>>, saved |-> <<>>,
     sink_error |-> FALSE, exc |-> "null"]

\* LangGraphAnalyzer.__init__: concurrency: int = 3
DefaultConcurrency == 3

ExecInit ==
    /\ variant \in Variants
    /\ lock = NoHolder
    /\ run_id_counter = 0
    /\ runs = <<>>
    /\ reports = <<>>
    /\ clock = 0
    /\ caller = [c \in Callers |-> IdleCaller]
    /\ worker = <<>>
    /\ issued = <<>>
    /\ gate = [r \in 1..MaxRuns |-> DefaultConcurrency]

ExecOff ==
    /\ variant = "off"
    /\ lock = NoHolder
    /\ run_id_counter = 0
    /\ runs = <<>>
    /\ reports = <<>>
    /\ clock = 0
    /\ caller = <<>>
    /\ worker = <<>>
    /\ issued = <<>>
    /\ gate = <<>>

\* how many calls of execute_task_async have returned run_id
TimesIssued(run_id) == IF run_id \in DOMAIN issued THEN issued[run_id] ELSE 0

\* calls in progress
Launching == {c \in Callers : caller[c].pc # "idle"}

\* execute_task_async up to the call of _create_run: the configuration is
\* resolved; when there is none ValueError is raised and nothing changes
Execute(c, task_name, override_config) ==
    /\ caller[c].pc = "idle"
    /\ run_id_counter + Cardinality(Launching) < MaxRuns
    /\ LET task_config == ResolveConfig(task_name, override_config) IN
        caller' = [caller EXCEPT ![c] =
            IF task_config = NoConfig
            THEN IdleCaller
            ELSE [pc |-> "create_run", task_name |-> task_name,
                  task_config |-> task_config, run_id |-> 0]]
    /\ UNCHANGED <<variant, gate, lock, run_id_counter, runs, reports, clock, worker, issued>>

\* _create_run: with self._lock: run_id = self._run_id_counter + 1
AcquireAndRead(c) ==
    /\ caller[c].pc = "create_run"
    /\ LockFree(c)
    /\ lock' = c
    /\ caller' = [caller EXCEPT ![c].run_id = run_id_counter + 1, ![c].pc = "locked"]
    /\ UNCHANGED <<variant, gate, run_id_counter, runs, reports, clock, worker, issued>>

\* _create_run: self._run_id_counter = run_id, and the lock is released
StoreAndRelease(c) ==
    /\ caller[c].pc = "locked"
    /\ run_id_counter' = caller[c].run_id
    /\ lock' = NoHolder
    /\ caller' = [caller EXCEPT ![c].pc = "unlocked"]
    /\ UNCHANGED <<variant, gate, runs, reports, clock, worker, issued>>

\* _create_run: run_info is built and self.runs[run_id] = run_info
RegisterRun(c) ==
    /\ caller[c].pc = "unlocked"
    /\ runs' = RegistryInsert(runs, caller[c].run_id,
                              NewRun(variant, caller[c].run_id, caller[c].task_name))
    /\ caller' = [caller EXCEPT ![c].pc = "registered"]
    /\ UNCHANGED <<variant, gate, lock, run_id_counter, reports, clock, worker, issued>>

\* execute_task_async: the thread is started and run_id returned
StartAndReturn(c) ==
    /\ caller[c].pc = "registered"
    /\ worker' = (caller[c].run_id :> NewWorker(caller[c].task_config)) @@ worker
    /\ issued' = (caller[c].run_id :> TimesIssued(caller[c].run_id) + 1) @@ issued
    /\ caller' = [caller EXCEPT ![c] = IdleCaller]
    /\ UNCHANGED <<variant, gate, lock, run_id_counter, runs, reports, clock>>

(***************************************************************************)
(* _run_task: the worker thread of one run.                                *)
(***************************************************************************)
\* create_sinks registers this name and its constructor returns
SinkConstructs(sink_name) == sink_name = "file"

RECURSIVE CreateSinksFrom(_, _)
\* the loop of create_sinks from entry i on: the entries (by position in the
\* configuration) whose sink was appended
CreateSinksFrom(sinks_config, i) ==
    IF i > Len(sinks_config) THEN <<>>
    ELSE (IF SinkConstructs(sinks_config[i]) THEN <<i>> ELSE <<>>)
         \o CreateSinksFrom(sinks_config, i + 1)

\* create_sinks(sinks_config)
CreateSinks(sinks_config) == CreateSinksFrom(sinks_config, 1)

\* how one sink.save call ends: a path, None, or an exception
SaveOutcomes == {"path", "none", "raise"}

\* the save calls made when the first exception leaves the loop
SaveLoopAbortsOnRaise(sinks, outcomes) ==
    LET raising == {k \in 1..Len(sinks) : outcomes[k] = "raise"}
        last == IF raising = {} THEN Len(sinks)
                ELSE CHOOSE k \in raising : \A j \in raising : k <= j
    IN [k \in 1..last |-> sinks[k]]

\* for sink in sinks: try: sink.save(result, metadata) except Exception: ...
\* -- the sinks whose save was called, in the order of the calls
SaveLoop(sinks, outcomes) == [k \in 1..Len(sinks) |-> sinks[k]]

\* the except branch of the sink loop ran (it logs the error)
SinkErrorLogged(sinks, outcomes) == \E k \in 1..Len(sinks) : outcomes[k] = "raise"

\* the seconds datetime.now() can fall in when a timestamp is taken
\* (strftime('%Y%m%d_%H%M%S')).  Seconds are numbered as timestamps are
\* taken: the first is second 1, a later one falls in the second of the
\* timestamp before it or in a later second; clock is the latest taken.
Now == IF clock = 0 THEN {1} ELSE {clock, clock + 1}

\* one assignment run_info[field] = value
Write(field, value) == [field |-> field, value |-> value]

ApplyWrite(run_info, w) ==
    CASE w.field = "status" -> [run_info EXCEPT !.status = w.value]
      [] w.field = "stage" -> [run_info EXCEPT !.stage = w.value]
      [] w.field = "finished_at" -> [run_info EXCEPT !.finished_at = w.value]
      [] w.field = "error" -> [run_info EXCEPT !.error = w.value]
      [] w.field = "report_id" -> [run_info EXCEPT !.report_id = w.value]
      [] w.field = "progress" -> [run_info EXCEPT !.progress = w.value]
      [] w.field = "percentage" -> [run_info EXCEPT !.progress.percentage = w.value]

DbProgress(percentage, stage) == [percentage |-> percentage, stage |-> stage]

\* the assignments that open the pipeline
BeginWrites(v) ==
    IF v = "log"
    THEN <<Write("stage", "collecting"),
           Write("progress", [total_chunks |-> 0, processed_chunks |-> 0, percentage |-> 0])>>
    ELSE <<Write("stage", "collecting"), Write("progress", DbProgress(10, "collecting"))>>

\* the assignments after collect returned
AnalyzingWrites(v) ==
    IF v = "log"
    THEN <<Write("stage", "analyzing")>>
    ELSE <<Write("stage", "analyzing"), Write("progress", DbProgress(50, "analyzing"))>>

\* assignments that put the run back to the collecting stage
SavingWritesBackwards(v) == <<Write("stage", "collecting")>>

\* the assignments after analyze returned; in the log variant the analyzer's
\* closing progress callback (all chunks processed) precedes them
SavingWrites(v) ==
    IF v = "log"
    THEN <<Write("progress", [total_chunks |-> 1, processed_chunks |-> 1, percentage |-> 100]),
           Write("stage", "saving")>>
    ELSE <<Write("stage", "saving"), Write("progress", DbProgress(90, "saving"))>>

\* closing assignments that set finished_at and report_id before the status
FinishWritesStatusLast(v, report_key) ==
    <<Write("finished_at", "set"), Write("report_id", report_key),
      Write("stage", "finished"), Write("status", "completed")>>

\* the assignments after the report was recorded
FinishWrites(v, report_key) ==
    IF v = "log"
    THEN <<Write("status", "completed"), Write("finished_at", "set"),
           Write("report_id", report_key), Write("stage", "finished"),
           Write("percentage", 100)>>
    ELSE <<Write("status", "completed"), Write("stage", "finished"),
           Write("progress", DbProgress(100, "finished")),
           Write("finished_at", "set"), Write("report_id", report_key)>>

\* the handler that leaves out run_info['stage'] = 'failed'
FailWritesStageKept(v, message) ==
    <<Write("status", "failed"), Write("finished_at", "set"), Write("error", message)>>

\* except Exception as e: the assignments of the handler
FailWrites(v, message) ==
    IF v = "log"
    THEN <<Write("status", "failed"), Write("finished_at", "set"),
           Write("error", message), Write("stage", "failed")>>
    ELSE <<Write("status", "failed"), Write("stage", "failed"),
           Write("progress", DbProgress(0, "failed")),
           Write("finished_at", "set"), Write("error", message)>>

\* except ConnectionError as e (db variant): the assignments before the
\* error report is built
ConnFailWrites(message) ==
    <<Write("status", "failed"), Write("stage", "failed"),
      Write("progress", DbProgress(0, "failed")),
      Write("finished_at", "set"), Write("error", message)>>

\* the messages of the exceptions a pipeline step can raise
StepError == "constructor or collect failed"
ConnectionError == "db unreachable"
AnalyzeError == "analyze failed"

\* error_data of the ConnectionError branch
ErrorData ==
    [database_type |-> "Postgresql", slow_queries |-> 0, processlist |-> 0,
     tables |-> 0, errors |-> 1]

AnalysisContent == [kind |-> "analysis"]

\* the record stored in self.reports
Report(report_key, run_id, content) ==
    [id |-> report_key,
     run_id |-> run_id,
     task_name |-> runs[run_id].task_name,
     label |-> report_key[3],
     content |-> content,
     timestamp |-> report_key[2]]

\* the worker of run r is at pc with no assignment pending
Ready(r, pc) == r \in DOMAIN worker /\ worker[r].pc = pc /\ worker[r].todo = <<>>

\* the pc after the ConnectionError branch when it collects again
ConnBranchRetries == "collect"

\* the pc after the ConnectionError branch when its return is missing
ConnBranchFallsThrough == "analyze"

\* the pc after the ConnectionError branch: return
ConnBranchEnd == "returned"

\* a worker that assigns through self.runs[self._run_id_counter], the record
\* of the run created last, instead of its own run_info
ProceedOnLatest(r, pc, writes) ==
    /\ runs' = [runs EXCEPT ![run_id_counter] = ApplyWrite(@, Head(writes))]
    /\ worker' = [worker EXCEPT ![r].pc = pc, ![r].todo = Tail(writes)]

\* the worker moves to pc, makes the first of the assignments and keeps the
\* others pending
Proceed(r, pc, writes) ==
    /\ runs' = [runs EXCEPT ![r] = ApplyWrite(@, Head(writes))]
    /\ worker' = [worker EXCEPT ![r].pc = pc, ![r].todo = Tail(writes)]

\* an exception reaches the handler of _run_task, which leaves the frame of
\* the try block: its first assignment is made
Raise(r, message) ==
    /\ runs' = [runs EXCEPT ![r] = ApplyWrite(@, Head(FailWrites(variant, message)))]
    /\ worker' = [worker EXCEPT ![r].pc = "failing",
                                ![r].exc = message,
                                ![r].timestamp = NoTimestamp,
                                ![r].sinks = <<>>,
                                ![r].todo = Tail(FailWrites(variant, message))]

\* the thread starts: run_info['stage'] = 'collecting'
WorkerBegin(r) ==
    /\ Ready(r, "start")
    /\ Proceed(r, "collect", BeginWrites(variant))
    /\ UNCHANGED <<variant, gate, lock, run_id_counter, reports, clock, caller, issued>>

\* the next pending assignment to run_info
WriteStep(r) ==
    /\ r \in DOMAIN worker
    /\ worker[r].todo # <<>>
    /\ runs' = [runs EXCEPT ![r] = ApplyWrite(@, Head(worker[r].todo))]
    /\ worker' = [worker EXCEPT ![r].todo = Tail(@)]
    /\ UNCHANGED <<variant, gate, lock, run_id_counter, reports, clock, caller, issued>>

\* create_source, create_analyzer, create_sinks (the db variant reads the
\* timestamp between them) and data = source.collect().  Either a
\* constructor of the source or the analyzer or collect raises some
\* exception, or collect raises ConnectionError, or it returns.
Collect(r) ==
    /\ Ready(r, "collect")
    /\ \E outcome \in {"data", "ConnectionError", "Exception"}, now \in Now :
        CASE outcome = "Exception" ->
                /\ Raise(r, StepError)
                /\ clock' = clock
          [] outcome = "ConnectionError" /\ variant = "log" ->
                /\ Raise(r, ConnectionError)
                /\ clock' = clock
          [] outcome = "ConnectionError" /\ variant = "db" ->
                /\ runs' = [runs EXCEPT ![r] =
                                ApplyWrite(@, Head(ConnFailWrites(ConnectionError)))]
                /\ worker' = [worker EXCEPT
                        ![r].pc = "error_report",
                        ![r].exc = ConnectionError,
                        ![r].timestamp = now,
                        ![r].todo = Tail(ConnFailWrites(ConnectionError))]
                /\ clock' = now
          [] outcome = "data" ->
                /\ runs' = [runs EXCEPT ![r] =
                                ApplyWrite(@, Head(AnalyzingWrites(variant)))]
                /\ worker' = [worker EXCEPT
                        ![r].pc = "analyze",
                        ![r].sinks = CreateSinks(worker[r].task_config.sinks),
                        ![r].timestamp = IF variant = "db" THEN now ELSE @,
                        ![r].todo = Tail(AnalyzingWrites(variant))]
                /\ clock' = IF variant = "db" THEN now ELSE clock
    /\ UNCHANGED <<variant, gate, lock, run_id_counter, reports, caller, issued>>

\* the analysis of run r gets its chunks past `async with semaphore` (the
\* db variant's analyzer has no such gate)
GateAdmits(r) == variant = "log" => SemaphoreFree(gate[r])

\* result = analyzer.analyze(data): it returns a text or raises
Analyze(r) ==
    /\ Ready(r, "analyze")
    /\ GateAdmits(r)
    /\ \E returned \in BOOLEAN :
        IF returned THEN Proceed(r, "save", SavingWrites(variant))
        ELSE Raise(r, AnalyzeError)
    /\ UNCHANGED <<variant, gate, lock, run_id_counter, reports, clock, caller, issued>>

\* the saving stage: the sink loop (the log variant reads the timestamp
\* before it), then self.reports[report_key] = {...}
SaveAndRecord(r) ==
    /\ Ready(r, "save")
    /\ \E now \in Now, outcomes \in [1..Len(worker[r].sinks) -> SaveOutcomes] :
        LET timestamp == IF variant = "log" THEN now ELSE worker[r].timestamp
            report_key == ReportKey(timestamp, runs[r].label)
        IN /\ clock' = IF variant = "log" THEN now ELSE clock
           /\ reports' = (report_key :> Report(report_key, r, AnalysisContent)) @@ reports
           /\ worker' = [worker EXCEPT
                    ![r].pc = IF variant = "log" THEN "alias" ELSE "finish",
                    ![r].timestamp = timestamp,
                    ![r].saved = SaveLoop(worker[r].sinks, outcomes),
                    ![r].sink_error = SinkErrorLogged(worker[r].sinks, outcomes),
                    ![r].todo = IF variant = "log" THEN <<>>
                                ELSE FinishWrites(variant, report_key)]
    /\ UNCHANGED <<variant, gate, lock, run_id_counter, runs, caller, issued>>

\* self.reports[str(run_id)] = self.reports[report_key]   (log variant)
RecordAlias(r) ==
    /\ Ready(r, "alias")
    /\ LET report_key == ReportKey(worker[r].timestamp, runs[r].label) IN
        /\ reports' = (RunIdKey(r) :> reports[report_key]) @@ reports
        /\ worker' = [worker EXCEPT ![r].pc = "finish",
                                    ![r].todo = FinishWrites(variant, report_key)]
    /\ UNCHANGED <<variant, gate, lock, run_id_counter, runs, clock, caller, issued>>

\* the ConnectionError branch (db variant): the error report is formatted by
\* a temporary analyzer and recorded; run_info['report_id'] is assigned next
RecordErrorReport(r) ==
    /\ Ready(r, "error_report")
    /\ LET report_key == ReportKey(worker[r].timestamp, runs[r].label)
           content == FormatErrorReport("connection", worker[r].exc, ErrorData)
       IN /\ reports' = (report_key :> Report(report_key, r, content)) @@ reports
          /\ worker' = [worker EXCEPT ![r].pc = "error_sinks",
                                      ![r].todo = <<Write("report_id", report_key)>>]
    /\ UNCHANGED <<variant, gate, lock, run_id_counter, runs, clock, caller, issued>>

\* the ConnectionError branch (db variant): the sinks are created again, the
\* error report is saved to each, and _run_task returns
SaveErrorReport(r) ==
    /\ Ready(r, "error_sinks")
    /\ LET sinks == CreateSinks(worker[r].task_config.sinks) IN
        \E outcomes \in [1..Len(sinks) -> SaveOutcomes] :
            worker' = [worker EXCEPT ![r].pc = ConnBranchEnd,
                                     ![r].sinks = sinks,
                                     ![r].saved = SaveLoop(sinks, outcomes),
                                     ![r].sink_error = SinkErrorLogged(sinks, outcomes)]
    /\ UNCHANGED <<variant, gate, lock, run_id_counter, runs, reports, clock, caller, issued>>

ExecNext ==
    \/ \E c \in Callers, task_name \in TaskArgs, override_config \in OverrideArgs :
            Execute(c, task_name, override_config) /\ UNCHANGED <<chunkVars, anVars, dbVars, msVars, lsVars, lnVars, srcVars, fmtVars>>
    \/ \E c \in Callers : AcquireAndRead(c) /\ UNCHANGED <<chunkVars, anVars, dbVars, msVars, lsVars, lnVars, srcVars, fmtVars>>
    \/ \E c \in Callers : StoreAndRelease(c) /\ UNCHANGED <<chunkVars, anVars, dbVars, msVars, lsVars, lnVars, srcVars, fmtVars>>
    \/ \E c \in Callers : RegisterRun(c) /\ UNCHANGED <<chunkVars, anVars, dbVars, msVars, lsVars, lnVars, srcVars, fmtVars>>
    \/ \E c \in Callers : StartAndReturn(c) /\ UNCHANGED <<chunkVars, anVars, dbVars, msVars, lsVars, lnVars, srcVars, fmtVars>>
    \/ \E r \in DOMAIN worker : WorkerBegin(r) /\ UNCHANGED <<chunkVars, anVars, dbVars, msVars, lsVars, lnVars, srcVars, fmtVars>>
    \/ \E r \in DOMAIN worker : WriteStep(r) /\ UNCHANGED <<chunkVars, anVars, dbVars, msVars, lsVars, lnVars, srcVars, fmtVars>>
    \/ \E r \in DOMAIN worker : Collect(r) /\ UNCHANGED <<chunkVars, anVars, dbVars, msVars, lsVars, lnVars, srcVars, fmtVars>>
    \/ \E r \in DOMAIN worker : Analyze(r) /\ UNCHANGED <<chunkVars, anVars, dbVars, msVars, lsVars, lnVars, srcVars, fmtVars>>
    \/ \E r \in DOMAIN worker : SaveAndRecord(r) /\ UNCHANGED <<chunkVars, anVars, dbVars, msVars, lsVars, lnVars, srcVars, fmtVars>>
    \/ \E r \in DOMAIN worker : RecordAlias(r) /\ UNCHANGED <<chunkVars, anVars, dbVars, msVars, lsVars, lnVars, srcVars, fmtVars>>
    \/ \E r \in DOMAIN worker : RecordErrorReport(r) /\ UNCHANGED <<chunkVars, anVars, dbVars, msVars, lsVars, lnVars, srcVars, fmtVars>>
    \/ \E r \in DOMAIN worker : SaveErrorReport(r) /\ UNCHANGED <<chunkVars, anVars, dbVars, msVars, lsVars, lnVars, srcVars, fmtVars>>

(***************************************************************************)
(* Properties of the task executor.                                        *)
(***************************************************************************)
\* callers that hold an allocated run id they have not returned yet
Allocated == {c \in Callers : caller[c].pc \in {"unlocked", "registered"}}

\* _run_task of run r has returned
Ended(r) ==
    /\ r \in DOMAIN worker
    /\ worker[r].todo = <<>>
    /\ worker[r].pc \in {"finish", "failing", "returned"}

\* the keys of the report registry whose report was recorded by run r
ReportKeysOf(r) == {k \in DOMAIN reports : reports[k].run_id = r}

\* the positions of the sinks configuration whose sink create_sinks appends
InstantiatedPositions(sinks_config) ==
    {i \in 1..Len(sinks_config) : SinkConstructs(sinks_config[i])}

\* C1: the run ids that concurrent calls of execute_task_async return are
\* pairwise distinct and dense: no id is returned twice, no two calls in
\* progress hold the same id, an id held by a call in progress has not been
\* returned, and the ids returned or held are exactly 1..run_id_counter.
RunIdsDistinctAndDense ==
    /\ \A run_id \in DOMAIN issued : issued[run_id] = 1
    /\ \A c, d \in Allocated : c # d => caller[c].run_id # caller[d].run_id
    /\ \A c \in Allocated : caller[c].run_id \notin DOMAIN issued
    /\ DOMAIN issued \cup {caller[c].run_id : c \in Allocated} = 1..run_id_counter

\* C1 witness: two calls overlapped; the one that took id 2 has returned
\* while the one that took id 1 is still before its return.
RunIdsDistinctAndDenseWitness ==
    /\ DOMAIN issued = {2}
    /\ \E c \in Callers : caller[c].pc = "registered" /\ caller[c].run_id = 1

\* C2: every run id execute_task_async has returned is in the run registry,
\* in every state from the return on; its record carries that id, and is
\* status=running, stage=queued as long as its worker has not taken a step.
ReturnedRunsRegistered ==
    \A run_id \in DOMAIN issued :
        /\ run_id \in DOMAIN runs
        /\ runs[run_id].id = run_id
        /\ run_id \in DOMAIN worker
        /\ worker[run_id].pc = "start" =>
                runs[run_id].status = "running" /\ runs[run_id].stage = "queued"

\* C2 witness: run 1 was returned and its worker has not run yet, while
\* another call is registering run 2.
ReturnedRunsRegisteredWitness ==
    /\ 1 \in DOMAIN issued
    /\ worker[1].pc = "start"
    /\ runs[1].stage = "queued"
    /\ \E c \in Callers : caller[c].pc = "unlocked" /\ caller[c].run_id = 2

\* C3: once a run's status is completed or failed, no step changes it.
TerminalStatusKept ==
    [][\A r \in DOMAIN runs :
            runs[r].status \in {"completed", "failed"} =>
                r \in DOMAIN runs' /\ runs'[r].status = runs[r].status]_vars

\* C3 witness: a run of the db variant went through the ConnectionError
\* branch (status failed, error report recorded, sinks invoked, one of them
\* raising) and returned with status failed.
TerminalStatusKeptWitness ==
    \E r \in DOMAIN worker :
        /\ worker[r].pc = "returned"
        /\ worker[r].sink_error
        /\ Len(worker[r].saved) = 2
        /\ runs[r].status = "failed"
        /\ runs[r].report_id \in DOMAIN reports

\* C4: a run whose collect() raised ConnectionError(msg) ends failed with
\* error msg and report_id naming a recorded error report that states the
\* connection failure.
ConnectionErrorReported ==
    \A r \in DOMAIN worker :
        (Ended(r) /\ worker[r].exc = ConnectionError) =>
            /\ runs[r].status = "failed"
            /\ runs[r].error = ConnectionError
            /\ runs[r].report_id \in DOMAIN reports
            /\ reports[runs[r].report_id].run_id = r
            /\ reports[runs[r].report_id].content.kind = "error_report"
            /\ reports[runs[r].report_id].content.detail = ConnectionError

\* C5: a run that ended in the handler of _run_task is status=failed,
\* stage=failed, its error is the exception's message, and no key of the
\* report registry maps to a report of that run.
UnhandledExceptionFailsRun ==
    \A r \in DOMAIN worker :
        (Ended(r) /\ worker[r].pc = "failing") =>
            /\ runs[r].status = "failed"
            /\ runs[r].stage = "failed"
            /\ runs[r].error = worker[r].exc
            /\ runs[r].error \in {StepError, ConnectionError, AnalyzeError}
            /\ ReportKeysOf(r) = {}

\* C5 witness: analyze raised in run 2 and the run ended, while run 1 has
\* recorded a report.
UnhandledExceptionFailsRunWitness ==
    /\ Ended(2)
    /\ worker[2].exc = AnalyzeError
    /\ runs[2].stage = "failed"
    /\ ReportKeysOf(1) # {}

\* C6: after the sink loop of the saving stage, save was called once on
\* each instantiated sink, in configuration order (whichever of them
\* raised); and the run then ends completed with report_id naming a
\* recorded report.
EverySinkSavedOnce ==
    \A r \in DOMAIN worker :
        /\ worker[r].pc \in {"alias", "finish"} =>
            /\ \A i, j \in 1..Len(worker[r].saved) :
                    i < j => worker[r].saved[i] < worker[r].saved[j]
            /\ {worker[r].saved[i] : i \in 1..Len(worker[r].saved)}
                    = InstantiatedPositions(worker[r].task_config.sinks)
        /\ (Ended(r) /\ worker[r].pc = "finish") =>
            /\ runs[r].status = "completed"
            /\ runs[r].report_id \in DOMAIN reports

\* C6 witness: a run whose configuration has a sink with a raising
\* constructor and an unregistered one, and in which a save raised, has
\* ended completed with both instantiated sinks saved.
EverySinkSavedOnceWitness ==
    \E r \in DOMAIN worker :
        /\ Ended(r)
        /\ worker[r].pc = "finish"
        /\ worker[r].sink_error
        /\ worker[r].saved = <<1, 4>>
        /\ runs[r].status = "completed"

\* the arguments of get_report: a composite key, a run id as an integer, or
\* a run id in its string form (which is RunIdKey)
IntArg(run_id) == <<"int", run_id, "">>

\* str(report_id)
StrOf(report_id) == IF report_id[1] = "int" THEN RunIdKey(report_id[2]) ELSE report_id

NotFound == [id |-> NoKey]

\* get_report: self.reports.get(str(report_id)) in the log variant,
\* self.reports.get(report_id) in the db variant
GetReport(v, registry, report_id) ==
    LET key == IF v = "log" THEN StrOf(report_id) ELSE report_id
    IN  IF key \in DOMAIN registry THEN registry[key] ELSE NotFound

\* C19 as claimed: once a run has completed, get_report finds a report of
\* that run under the run's composite key, and finds the same report under
\* the run id, given as an integer or as a string.
ReportFoundByBothKeys ==
    \A r \in DOMAIN runs :
        (runs[r].status = "completed" /\ Ended(r)) =>
            LET by_key == GetReport(variant, reports, runs[r].report_id)
            IN  /\ by_key # NotFound
                /\ by_key.run_id = r
                /\ GetReport(variant, reports, IntArg(r)) = by_key
                /\ GetReport(variant, reports, RunIdKey(r)) = by_key

\* C21 as claimed: a report, once recorded under a key, stays under that key
\* unchanged (same run_id and content) in every later state, whatever other
\* runs do, also runs of the same label in the same second.
ReportsRetained ==
    [][\A k \in DOMAIN reports :
            /\ k \in DOMAIN reports'
            /\ reports'[k] = reports[k]]_vars

\* the stages of a run that goes well, in order
StageOrder == <<"queued", "collecting", "analyzing", "saving", "finished">>

StageRank(stage) == CHOOSE k \in 1..Len(StageOrder) : StageOrder[k] = stage

\* C30: a run is registered at stage queued, and every step leaves the stage
\* of every run as it is, moves it to the next stage of queued, collecting,
\* analyzing, saving, finished, or moves it from a stage other than finished
\* and failed to failed; so it never goes back, never skips a stage on the
\* way to finished, and never changes once it is finished or failed.
StageOnlyForward ==
    /\ [](\A r \in DOMAIN runs :
            runs[r].stage \in {"failed"} \cup {StageOrder[k] : k \in 1..Len(StageOrder)})
    /\ [][\A r \in DOMAIN runs' :
            IF r \notin DOMAIN runs
            THEN runs'[r].stage = "queued"
            ELSE \/ runs'[r].stage = runs[r].stage
                 \/ /\ runs[r].stage \notin {"finished", "failed"}
                    /\ \/ runs'[r].stage = "failed"
                       \/ StageRank(runs'[r].stage) = StageRank(runs[r].stage) + 1]_vars

\* C30 witness: one run has gone through all stages to finished while another
\* failed during the analysis.
StageOnlyForwardWitness ==
    /\ DOMAIN runs = {1, 2}
    /\ runs[1].stage = "finished"
    /\ runs[1].status = "completed"
    /\ runs[2].stage = "failed"
    /\ runs[2].error = AnalyzeError

\* how far _run_task has got: each position is left for a later one
PcRank(pc) ==
    CASE pc = "start" -> 0
      [] pc = "collect" -> 1
      [] pc = "analyze" -> 2
      [] pc = "error_report" -> 2
      [] pc = "save" -> 3
      [] pc = "error_sinks" -> 3
      [] pc = "alias" -> 4
      [] pc = "returned" -> 4
      [] pc = "finish" -> 5
      [] OTHER -> 6

\* C31: the worker of a run only moves on in _run_task: the position from
\* which collect() is called and the one from which analyze() is called are
\* each left once and never entered again, so each is called at most once
\* per run whatever it does; a worker that has ended stays as it is; and a
\* launch starts a worker of its own under an id no worker had, at the
\* start of _run_task, without touching the workers and records of the
\* earlier runs.
NoRetries ==
    [][/\ \A r \in DOMAIN worker :
            /\ r \in DOMAIN worker'
            /\ worker'[r].pc # worker[r].pc =>
                    PcRank(worker'[r].pc) > PcRank(worker[r].pc)
            /\ Ended(r) => worker'[r] = worker[r] /\ runs'[r] = runs[r]
       /\ \A r \in DOMAIN worker' \ DOMAIN worker :
            /\ worker'[r].pc = "start"
            /\ runs'[r].status = "running" /\ runs'[r].stage = "queued"
            /\ \A q \in DOMAIN worker : worker'[q] = worker[q]
            /\ runs' = runs]_vars

\* C31 witness: run 1 of task 'daily' has failed in analyze and ended; the
\* task was launched again as run 2, which has completed.
NoRetriesWitness ==
    /\ DOMAIN worker = {1, 2}
    /\ Ended(1) /\ Ended(2)
    /\ runs[1].task_name = runs[2].task_name
    /\ runs[1].status = "failed" /\ runs[1].error = AnalyzeError
    /\ runs[2].status = "completed"

\* run r of the db variant is in, or through, the except ConnectionError
\* branch of _run_task
OnConnectionFailurePath(r) ==
    /\ variant = "db"
    /\ r \in DOMAIN worker
    /\ worker[r].exc = ConnectionError

\* C33 on the connection-failure path of the db variant analyze() is never
\* invoked: the worker enters the path from the collect step, before any
\* analyze step, and from then on goes only through the error-report step,
\* the error-sink step and the return.  The report it records is the one
\* _format_error_report builds from the exception and the local error_data
\* (no completion of the model is in it), it is recorded under the run's
\* key with the run's id, and when the branch returns save has been called
\* on every sink create_sinks returned.
ConnectionFailureSkipsAnalyze ==
    [][\A r \in DOMAIN worker' :
        LET before == r \in DOMAIN worker /\ worker[r].exc = ConnectionError
            after == worker'[r].exc = ConnectionError
            report_key == ReportKey(worker'[r].timestamp, runs'[r].label)
        IN  (variant = "db" /\ after) =>
              /\ ~before => /\ r \in DOMAIN worker
                            /\ worker[r].pc = "collect"
                            /\ worker'[r].pc = "error_report"
              /\ worker'[r].pc \in {"error_report", "error_sinks", "returned"}
              /\ (before /\ worker[r].pc = "error_report" /\ worker'[r].pc = "error_sinks") =>
                    /\ report_key \in DOMAIN reports'
                    /\ reports'[report_key].run_id = r
                    /\ reports'[report_key].content =
                            FormatErrorReport("connection", ConnectionError, ErrorData)
                    /\ reports'[report_key].content.kind # AnalysisContent.kind
              /\ (worker'[r].pc = "returned" /\ worker'[r].todo = <<>>) =>
                    /\ runs'[r].report_id = report_key
                    /\ worker'[r].saved = CreateSinks(worker'[r].task_config.sinks)]_vars

\* a run of the db variant whose collect raised ConnectionError has
\* returned, with a sink that was saved to and its report on record
ConnectionFailureSkipsAnalyzeWitness ==
    \E r \in DOMAIN worker :
        /\ OnConnectionFailurePath(r)
        /\ Ended(r)
        /\ worker[r].pc = "returned"
        /\ worker[r].saved # <<>>
        /\ runs[r].report_id \in DOMAIN reports
        /\ reports[runs[r].report_id].content.kind = "error_report"

ExecGatedInit ==
    /\ variant \in Variants
    /\ lock = NoHolder
    /\ run_id_counter = 0
    /\ runs = <<>>
    /\ reports = <<>>
    /\ clock = 0
    /\ caller = [c \in Callers |-> IdleCaller]
    /\ worker = <<>>
    /\ issued = <<>>
    /\ gate \in [1..MaxRuns -> AcceptedConcurrency]

\* a step of the executor leaves the other parts alone
ExecOnly ==
    UNCHANGED <<chunkVars, anVars, dbVars, msVars, lsVars, lnVars, srcVars, fmtVars>>

\* a step of the thread of run r
WorkerStep(r) ==
    \/ WorkerBegin(r)
    \/ WriteStep(r)
    \/ Collect(r)
    \/ Analyze(r)
    \/ SaveAndRecord(r)
    \/ RecordAlias(r)
    \/ RecordErrorReport(r)
    \/ SaveErrorReport(r)

\* every started thread is scheduled again and again, and each call it makes
\* (collect, analyze's requests, save) returns or raises
ExecFairness == \A r \in 1..MaxRuns : WF_vars(WorkerStep(r) /\ ExecOnly)

\* C37 as claimed: every run whose thread was started eventually has status
\* completed or failed.
EveryRunEnds ==
    \A r \in 1..MaxRuns :
        (r \in DOMAIN worker) ~>
            (r \in DOMAIN runs /\ runs[r].status \in {"completed", "failed"})

\* C38: in every state, for every run record: finished_at is set only when
\* the status is completed or failed, error is set only when the status is
\* failed, and report_id is set only when the report registry holds a report
\* under that key.
RunRecordConsistent ==
    \A r \in DOMAIN runs :
        /\ runs[r].finished_at # "null" => runs[r].status \in {"completed", "failed"}
        /\ runs[r].error # "null" => runs[r].status = "failed"
        /\ runs[r].report_id # NoKey => runs[r].report_id \in DOMAIN reports

\* C38 witness: one run has failed with its error and finishing time set,
\* another has completed with its finishing time and report id set and no
\* error
RunRecordConsistentWitness ==
    \E r1, r2 \in DOMAIN runs :
        /\ runs[r1].status = "failed" /\ runs[r1].error # "null"
        /\ runs[r1].finished_at # "null"
        /\ runs[r2].status = "completed" /\ runs[r2].finished_at # "null"
        /\ runs[r2].report_id \in DOMAIN reports
        /\ runs[r2].error = "null"

\* the progress of a run record is within its bounds
ProgressInBounds(p) ==
    /\ 0 <= p.percentage /\ p.percentage <= 100
    /\ "total_chunks" \in DOMAIN p =>
            0 <= p.processed_chunks /\ p.processed_chunks <= p.total_chunks

SourceEntries == {<<"docker", "good">>, <<"docker", "bad">>, <<"bogus", "good">>}

\* the sets of plugin modules whose import succeeds (lines 12-30)
PluginSets == {{"docker"}, {}}

NoClass == "None"

NoInstance == [class |-> NoClass, label |-> ""]

LabelOf(k) == "app" \o ToString(k)

\* the lists a task configuration may give as sources
SourceConfigs ==
    UNION {[1..n -> SourceEntries] : n \in 0..MaxSources}

SourcesOf(f) ==
    [k \in 1..Len(f) |-> [type |-> f[k][1], label |-> LabelOf(k), params |-> f[k][2]]]

\* source_map.get(source_type): the class, or None when the type is not in
\* the map or the import of the plugin failed
SourceMap(plugins, source_type) ==
    IF source_type \in {"docker", "file", "sql", "litellm"} /\ source_type \in plugins
    THEN source_type
    ELSE NoClass

\* _create_source: None for no class and for a constructor that raises
CreateSource(plugins, source_type, params) ==
    LET source_class == SourceMap(plugins, source_type)
    IN  IF source_class = NoClass
        THEN NoInstance
        ELSE IF params = "bad"
             THEN NoInstance
             ELSE [class |-> source_class, label |-> ""]

\* the loop of __init__: the instances created, labelled, in list order
RECURSIVE CreateInstances(_, _)
CreateInstances(plugins, sources) ==
    IF sources = <<>>
    THEN <<>>
    ELSE LET source_cfg == Head(sources)
             source_instance == CreateSource(plugins, source_cfg.type, source_cfg.params)
             rest == CreateInstances(plugins, Tail(sources))
         IN  IF source_instance # NoInstance
             THEN <<[source_instance EXCEPT !.label = source_cfg.label]>> \o rest
             ELSE rest

NoValidSourcesNever(instances) == FALSE

\* if not self.source_instances: raise ValueError
NoValidSources(instances) == Len(instances) = 0

EmptyText == <<"">>

OneLineText == <<"x">>

MultiLineText == <<"x", "", "y">>

\* what one sub-source's collect() does: raise at the call, return a string,
\* return an iterable that yields chunks and then ends or raises, or return
\* something that is neither
CollectOutcomes ==
    {[kind |-> "raises", chunks |-> <<>>, fails |-> TRUE]}
    \cup {[kind |-> "str", chunks |-> <<t>>, fails |-> FALSE] :
            t \in {EmptyText, MultiLineText}}
    \cup {[kind |-> "iter", chunks |-> c, fails |-> f] :
            c \in {<<>>, <<EmptyText, OneLineText>>},
            f \in BOOLEAN}
    \cup {[kind |-> "other", chunks |-> <<>>, fails |-> FALSE]}

\* if result: / if log_chunk:
Truthy(text) == text # EmptyText

\* the chunks of a result that reach all_logs.append
Appended(outcome) == SelectSeq(outcome.chunks, Truthy)

\* the seconds datetime.now() may show for n appends in a row, from second
\* t: local wall-clock time, which may also be set back
RECURSIVE Stamps(_, _)
Stamps(t, n) ==
    IF n = 0
    THEN {<<>>}
    ELSE UNION {{<<s>> \o rest : rest \in Stamps(s, n - 1)} :
                    s \in {t, t + 1} \cup (IF t > 1 THEN {t - 1} ELSE {})}

\* the entries one sub-source adds: (timestamp, label, content)
Entries(label, texts, stamps) ==
    [i \in 1..Len(texts) |->
        [timestamp |-> stamps[i], label |-> label, content |-> texts[i]]]

\* an insertion that puts an entry before the entries of its own timestamp
RECURSIVE InsertBeforeTies(_, _)
InsertBeforeTies(sorted, e) ==
    IF sorted = <<>>
    THEN <<e>>
    ELSE IF Head(sorted).timestamp < e.timestamp
         THEN <<Head(sorted)>> \o InsertBeforeTies(Tail(sorted), e)
         ELSE <<e>> \o sorted

\* all_logs.sort(key=lambda x: x[0]): a stable sort by timestamp
RECURSIVE InsertByTimestamp(_, _)
InsertByTimestamp(sorted, e) ==
    IF sorted = <<>>
    THEN <<e>>
    ELSE IF Head(sorted).timestamp <= e.timestamp
         THEN <<Head(sorted)>> \o InsertByTimestamp(Tail(sorted), e)
         ELSE <<e>> \o sorted

RECURSIVE SortByTimestamp(_)
SortByTimestamp(list) ==
    IF list = <<>>
    THEN <<>>
    ELSE InsertByTimestamp(SortByTimestamp(SubSeq(list, 1, Len(list) - 1)),
                           list[Len(list)])

\* if line.strip()
NonBlank(line) == line # ""

\* the lines yielded for one entry: f"[{timestamp}] [{label}] {line}\n"
LinesOf(e) ==
    LET lines == SelectSeq(e.content, NonBlank)
    IN  [i \in 1..Len(lines) |->
            [kind |-> "line", timestamp |-> e.timestamp, label |-> e.label,
             line |-> lines[i]]]

RECURSIVE FormatAll(_)
FormatAll(list) ==
    IF list = <<>> THEN <<>> ELSE LinesOf(Head(list)) \o FormatAll(Tail(list))

Annotation == [kind |-> "call_chain", timestamp |-> 0, label |-> "", line |-> ""]

\* what the generator yields once the loop over the instances is over
Yielded(chain, list) ==
    IF list = <<>>
    THEN <<>>
    ELSE (IF chain THEN <<Annotation>> ELSE <<>>) \o FormatAll(SortByTimestamp(list))

\* not log_data.strip() for '\n'.join(items): every yielded item has text
LogDataBlank(items) == items = <<>>

NewMultiRun == [status |-> "running", stage |-> "queued", content |-> NoReport]

MultiInit ==
    /\ msPc = "config"
    /\ importable \in PluginSets
    /\ \E f \in SourceConfigs : sources_config = SourcesOf(f)
    /\ call_chain \in BOOLEAN
    /\ source_instances = <<>>
    /\ results = <<>>
    /\ all_logs = <<>>
    /\ msClock = 1
    /\ stream = <<>>
    /\ msRun = NewMultiRun

MultiOff ==
    /\ msPc = "off"
    /\ importable = {}
    /\ sources_config = <<>>
    /\ call_chain = FALSE
    /\ source_instances = <<>>
    /\ results = <<>>
    /\ all_logs = <<>>
    /\ msClock = 0
    /\ stream = <<>>
    /\ msRun = NewMultiRun

\* _run_task up to create_source: MultiSource.__init__; its ValueError is
\* caught by the handler of _run_task
MultiConstruct ==
    /\ msPc = "config"
    /\ LET instances == CreateInstances(importable, sources_config)
       IN  /\ source_instances' = instances
           /\ IF NoValidSources(instances)
              THEN /\ msPc' = "failed"
                   /\ msRun' = [msRun EXCEPT !.status = "failed", !.stage = "failed"]
              ELSE /\ msPc' = "collecting"
                   /\ msRun' = [msRun EXCEPT !.stage = "collecting"]
    /\ UNCHANGED <<importable, sources_config, call_chain, results, all_logs,
                   msClock, stream>>

\* one round of the loop of collect(): the whole try block for the next
\* instance, with what that instance's collect() does
MultiCollectFrom ==
    /\ msPc = "collecting"
    /\ Len(results) < Len(source_instances)
    /\ \E outcome \in CollectOutcomes :
        LET label == source_instances[Len(results) + 1].label
            texts == Appended(outcome)
        IN  \E stamps \in Stamps(msClock, Len(texts)) :
                /\ results' = Append(results, outcome)
                /\ all_logs' = all_logs \o Entries(label, texts, stamps)
                /\ msClock' = IF stamps = <<>> THEN msClock ELSE stamps[Len(stamps)]
    /\ UNCHANGED <<msPc, importable, sources_config, call_chain,
                   source_instances, stream, msRun>>

\* the rest of collect(), run by '\n'.join(data) of _run_task
MultiYield ==
    /\ msPc = "collecting"
    /\ Len(results) = Len(source_instances)
    /\ stream' = Yielded(call_chain, all_logs)
    /\ msRun' = [msRun EXCEPT !.stage = "analyzing"]
    /\ msPc' = "joined"
    /\ UNCHANGED <<importable, sources_config, call_chain, source_instances,
                   results, all_logs, msClock>>

\* analyzer.analyze(data): the canned text for blank data, an analysis
\* otherwise
MultiAnalyze ==
    /\ msPc = "joined"
    /\ msRun' = [msRun EXCEPT
                    !.stage = "saving",
                    !.content = IF LogDataBlank(stream)
                                THEN BlankReport
                                ELSE AnalysisContent]
    /\ msPc' = "analyzed"
    /\ UNCHANGED <<importable, sources_config, call_chain, source_instances,
                   results, all_logs, msClock, stream>>

\* the sinks, the report record and the final status
MultiRecord ==
    /\ msPc = "analyzed"
    /\ msRun' = [msRun EXCEPT !.status = "completed", !.stage = "finished"]
    /\ msPc' = "finished"
    /\ UNCHANGED <<importable, sources_config, call_chain, source_instances,
                   results, all_logs, msClock, stream>>

MultiNext ==
    \/ MultiConstruct /\ UNCHANGED <<chunkVars, anVars, dbVars, exVars, lsVars, lnVars, srcVars, fmtVars>>
    \/ MultiCollectFrom /\ UNCHANGED <<chunkVars, anVars, dbVars, exVars, lsVars, lnVars, srcVars, fmtVars>>
    \/ MultiYield /\ UNCHANGED <<chunkVars, anVars, dbVars, exVars, lsVars, lnVars, srcVars, fmtVars>>
    \/ MultiAnalyze /\ UNCHANGED <<chunkVars, anVars, dbVars, exVars, lsVars, lnVars, srcVars, fmtVars>>
    \/ MultiRecord /\ UNCHANGED <<chunkVars, anVars, dbVars, exVars, lsVars, lnVars, srcVars, fmtVars>>

\* the generator of collect() has been run to its end
Collected == msPc \in {"joined", "analyzed", "finished"}

\* the instances whose collect() raised, at the call or during the iteration
FailingInstances == {k \in 1..Len(results) : results[k].fails}

LabelsOf(instances) == {source_instances[k].label : k \in instances}

StreamLabels == {stream[i].label : i \in {j \in DOMAIN stream : stream[j].kind = "line"}}

\* the lines instance k returned to collect(), blank ones left out
ReturnedLines(k) ==
    UNION {{results[k].chunks[c][n] : n \in DOMAIN results[k].chunks[c]} :
                c \in DOMAIN results[k].chunks} \ {""}

\* C16 as claimed: when the collect() of one of several sub-sources raises, at
\* the call or while its result is iterated, collect() of the MultiSource
\* raises nothing, every line of its output comes from a sub-source that did
\* not raise and carries that sub-source's label, and no line of a raising
\* sub-source is in the output.
FailingSourceOmitted ==
    (Collected /\ Len(source_instances) > 1 /\ FailingInstances # {}) =>
        /\ msRun.status # "failed"
        /\ \A i \in DOMAIN stream :
            stream[i].kind = "line" =>
                \E k \in (1..Len(results)) \ FailingInstances :
                    /\ stream[i].label = source_instances[k].label
                    /\ stream[i].line \in ReturnedLines(k)
        /\ StreamLabels \cap LabelsOf(FailingInstances) = {}

\* the entry is of a known type whose plugin was imported and whose
\* constructor accepts the entry's parameters
Instantiable(source_cfg) ==
    CreateSource(importable, source_cfg.type, source_cfg.params) # NoInstance

Constructed == msPc \notin {"off", "config"}

\* C17: the construction of a MultiSource raises exactly when no entry of
\* the sources list could be instantiated (unknown type, plugin not
\* imported, constructor raising, or an empty list); otherwise it succeeds
\* and holds one instance per instantiable entry, in list order, each with
\* the label of its entry, the other entries being skipped.
ConstructFailsIffNoInstance ==
    Constructed =>
        LET usable == SelectSeq(sources_config, Instantiable)
        IN  /\ msPc = "failed" <=> usable = <<>>
            /\ msPc = "failed" => msRun.status = "failed"
            /\ Len(source_instances) = Len(usable)
            /\ \A i \in DOMAIN usable :
                /\ source_instances[i].label = usable[i].label
                /\ source_instances[i].class = usable[i].type

\* C17 witness: a list of three entries of which one was instantiated, the
\* unknown type and the raising constructor being skipped.
ConstructFailsIffNoInstanceWitness ==
    /\ msPc = "collecting"
    /\ Len(sources_config) = 3
    /\ Len(source_instances) = 1
    /\ \E k \in DOMAIN sources_config : sources_config[k].type = "bogus"
    /\ \E k \in DOMAIN sources_config : sources_config[k].params = "bad"

\* the instances whose collect() raised or gave nothing to aggregate
FailedOrEmpty == {k \in 1..Len(results) : results[k].fails \/ Appended(results[k]) = <<>>}

\* C18 as claimed: when every sub-source fails or returns nothing, collect()
\* yields an empty stream and raises nothing, and the run ends completed
\* with the analyzer's nothing-found text as its report, never failed.
AllFailedStillCompletes ==
    (Collected /\ FailedOrEmpty = 1..Len(source_instances)) =>
        /\ stream = <<>>
        /\ msRun.status # "failed"
        /\ msPc = "finished" =>
            /\ msRun.status = "completed"
            /\ msRun.content = BlankReport

\* the log lines of the stream, without the annotation block
IsLine(item) == item.kind = "line"

LogLines == SelectSeq(stream, IsLine)

\* the position in the configuration of the source with this label
ConfigPosition(label) ==
    CHOOSE k \in 1..Len(sources_config) : sources_config[k].label = label

\* the position in all_logs (the order of collection) of the entry a line
\* with this label and timestamp comes from
CollectionPosition(label, timestamp) ==
    CHOOSE k \in 1..Len(all_logs) :
        all_logs[k].label = label /\ all_logs[k].timestamp = timestamp

\* the texts of the log lines that carry this label and timestamp
LinesLabelled(label, timestamp) ==
    LET Mine(item) == item.label = label /\ item.timestamp = timestamp
        mine == SelectSeq(LogLines, Mine)
    IN  [k \in 1..Len(mine) |-> mine[k].line]

\* C29: the instances, and the entries they add to all_logs, are in
\* configuration order; the log lines of the stream are ordered by entry
\* timestamp and, for equal timestamps, by order of collection; each line
\* carries the timestamp and label of its entry, and the lines of an entry
\* are its non-blank lines in their original order; with a call chain the
\* stream starts with the annotation block, which appears nowhere else, and
\* a collection without entries yields nothing.
CollectOrdered ==
    Collected =>
        /\ \A k, l \in 1..Len(source_instances) :
                k < l => ConfigPosition(source_instances[k].label)
                            < ConfigPosition(source_instances[l].label)
        /\ \A k, l \in 1..Len(all_logs) :
                k < l => ConfigPosition(all_logs[k].label)
                            <= ConfigPosition(all_logs[l].label)
        /\ \A k, l \in 1..Len(LogLines) :
                k < l =>
                    \/ LogLines[k].timestamp < LogLines[l].timestamp
                    \/ /\ LogLines[k].timestamp = LogLines[l].timestamp
                       /\ CollectionPosition(LogLines[k].label, LogLines[k].timestamp)
                            <= CollectionPosition(LogLines[l].label, LogLines[l].timestamp)
        /\ \A k \in 1..Len(LogLines) :
                \E e \in 1..Len(all_logs) :
                    /\ all_logs[e].label = LogLines[k].label
                    /\ all_logs[e].timestamp = LogLines[k].timestamp
        /\ \A e \in 1..Len(all_logs) :
                LinesLabelled(all_logs[e].label, all_logs[e].timestamp)
                    = SelectSeq(all_logs[e].content, NonBlank)
        /\ \A k \in 1..Len(stream) :
                stream[k] = Annotation <=> (call_chain /\ k = 1)
        /\ all_logs = <<>> => stream = <<>>

\* C29 witness: three sources with a call chain; the clock showed second 2,
\* then 1, then 2 again; the stream is the annotation, the line of the second
\* source, the two non-blank lines of the first, and the line of the third.
CollectOrderedWitness ==
    /\ Collected
    /\ call_chain
    /\ Len(all_logs) = 3
    /\ [k \in 1..3 |-> all_logs[k].timestamp] = <<2, 1, 2>>
    /\ all_logs[1].content = MultiLineText
    /\ Len(stream) = 5
    /\ stream[1] = Annotation
    /\ [k \in 2..5 |-> stream[k].label] =
            [k \in 2..5 |-> all_logs[<<2, 1, 1, 3>>[k - 1]].label]
    /\ stream[3].line = "x" /\ stream[4].line = "y"

(***************************************************************************)
(* The report listing: TaskExecutor.list_reports of both task.py.          *)
(*                                                                         *)
(* The registry is self.reports as a dict: the sequence of its (key,       *)
(* report) pairs in insertion order.  A created_at string is the sequence  *)
(* <<second>> or <<second, fraction>> (isoformat() leaves the fraction out *)
(* when it is zero), compared as Python compares strings.  An optional     *)
(* argument is <<>> for None and <<value>> otherwise.  The loop over the   *)
(* dict is taken with no insertion by a worker thread during it.           *)
(***************************************************************************)
ListLabels == {"all", "web"}

TimeStrings == {<<1>>, <<1, 5>>, <<2>>}

\* a < b for strings
RECURSIVE StrLess(_, _)
StrLess(a, b) ==
    IF b = <<>>
    THEN FALSE
    ELSE IF a = <<>>
         THEN TRUE
         ELSE IF Head(a) # Head(b)
              THEN Head(a) < Head(b)
              ELSE StrLess(Tail(a), Tail(b))

\* the record _run_task stores; label is container_name / database
StoredReport(report_key, run_id, label, created_at) ==
    [id |-> report_key, run_id |-> run_id, label |-> label,
     created_at |-> created_at, timestamp |-> report_key[2]]

KeysOf(dict) == {dict[i].key : i \in DOMAIN dict}

\* dict[key] = value: a new key goes to the end, a known key keeps its place
Put(dict, key, value) ==
    IF key \in KeysOf(dict)
    THEN [i \in DOMAIN dict |->
            IF dict[i].key = key THEN [key |-> key, value |-> value] ELSE dict[i]]
    ELSE Append(dict, [key |-> key, value |-> value])

Lookup(dict, key) == dict[CHOOSE i \in DOMAIN dict : dict[i].key = key].value

IsDigitNever(key) == FALSE

\* key.isdigit(): true of str(run_id), false of "{timestamp}_{label}"
IsDigit(key) == key[1] = "id"

\* `if container_name and ...`: None and "" apply no filter
LabelGiven(label) == label # <<>> /\ label[1] # ""

\* `if start_time and ...` / `if end_time and ...`: None and "" apply no filter
TimeGiven(time) == time # <<>> /\ time[1] # <<>>

\* `if limit and limit > 0`
LimitGiven(limit) == limit # <<>> /\ limit[1] # 0 /\ limit[1] > 0

\* the tests of the loop body
Listed(entry, label, start_time, end_time) ==
    /\ ~IsDigit(entry.key)
    /\ ~(LabelGiven(label) /\ entry.value.label # label[1])
    /\ ~(TimeGiven(start_time) /\ StrLess(entry.value.created_at, start_time[1]))
    /\ ~(TimeGiven(end_time) /\ StrLess(end_time[1], entry.value.created_at))

\* the summary appended for a report
Summary(rep) ==
    [id |-> rep.id, run_id |-> rep.run_id, label |-> rep.label,
     created_at |-> rep.created_at, timestamp |-> rep.timestamp]

RECURSIVE Summaries(_, _, _, _)
Summaries(dict, label, start_time, end_time) ==
    IF dict = <<>>
    THEN <<>>
    ELSE (IF Listed(Head(dict), label, start_time, end_time)
          THEN <<Summary(Head(dict).value)>>
          ELSE <<>>) \o Summaries(Tail(dict), label, start_time, end_time)

\* reports.sort(key=created_at, reverse=True): stable, newest first
RECURSIVE InsertNewestFirst(_, _)
InsertNewestFirst(sorted, e) ==
    IF sorted = <<>>
    THEN <<e>>
    ELSE IF StrLess(Head(sorted).created_at, e.created_at)
         THEN <<e>> \o sorted
         ELSE <<Head(sorted)>> \o InsertNewestFirst(Tail(sorted), e)

RECURSIVE SortNewestFirst(_)
SortNewestFirst(list) ==
    IF list = <<>>
    THEN <<>>
    ELSE InsertNewestFirst(SortNewestFirst(SubSeq(list, 1, Len(list) - 1)),
                           list[Len(list)])

\* if limit and limit > 0: reports = reports[:limit]
Truncate(list, limit) ==
    IF LimitGiven(limit) /\ limit[1] < Len(list)
    THEN SubSeq(list, 1, limit[1])
    ELSE list

ListReports(dict, label, start_time, end_time, limit) ==
    Truncate(SortNewestFirst(Summaries(dict, label, start_time, end_time)), limit)

Optional(S) == {<<>>} \cup {<<x>> : x \in S}

ListArgs ==
    [label : Optional(ListLabels \cup {""}),
     start_time : Optional({<<>>, <<1, 5>>}),
     end_time : Optional({<<>>, <<1>>, <<1, 5>>}),
     limit : Optional(-1..MaxReports)]

NoArgs == [label |-> <<>>, start_time |-> <<>>, end_time |-> <<>>, limit |-> <<>>]

ListInit ==
    /\ lsPc = "idle"
    /\ lsVariant \in Variants
    /\ reports_dict = <<>>
    /\ recorded = 0
    /\ lsArgs = NoArgs
    /\ lsResult = <<>>

ListOff ==
    /\ lsPc = "off"
    /\ lsVariant = "off"
    /\ reports_dict = <<>>
    /\ recorded = 0
    /\ lsArgs = NoArgs
    /\ lsResult = <<>>

\* a run records its report: under the composite key and, in the log
\* variant, under str(run_id)
RecordReport ==
    /\ lsPc = "idle"
    /\ recorded < MaxReports
    /\ \E label \in ListLabels, created_at \in TimeStrings :
        LET run_id == recorded + 1
            report_key == ReportKey(created_at[1], label)
            stored == Put(reports_dict, report_key,
                          StoredReport(report_key, run_id, label, created_at))
        IN  reports_dict' = IF lsVariant = "log"
                        THEN Put(stored, RunIdKey(run_id), Lookup(stored, report_key))
                        ELSE stored
    /\ recorded' = recorded + 1
    /\ lsPc' = "idle"
    /\ UNCHANGED <<lsVariant, lsArgs, lsResult>>

\* one call of list_reports
CallListReports ==
    /\ lsPc = "idle"
    /\ \E args \in ListArgs :
        /\ lsArgs' = args
        /\ lsResult' = ListReports(reports_dict, args.label, args.start_time,
                                   args.end_time, args.limit)
    /\ lsPc' = "listed"
    /\ UNCHANGED <<lsVariant, reports_dict, recorded>>

ListNext ==
    \/ RecordReport /\ UNCHANGED <<chunkVars, anVars, dbVars, exVars, msVars, lnVars, srcVars, fmtVars>>
    \/ CallListReports /\ UNCHANGED <<chunkVars, anVars, dbVars, exVars, msVars, lnVars, srcVars, fmtVars>>

\* the reports stored under a composite key
CompositeReports ==
    {reports_dict[i].value : i \in {j \in DOMAIN reports_dict : reports_dict[j].key[1] = "key"}}

ResultSet == {lsResult[i] : i \in DOMAIN lsResult}

Older(a, b) == StrLess(a.created_at, b.created_at)

\* C20 as claimed: list_reports returns each recorded report at most once,
\* only reports that match the label filter and lie between start_time and
\* end_time as strings, newest first, and with a limit at most limit
\* entries, the newest ones, for whatever filter and limit (not negative)
\* is passed.
ListedAsClaimed ==
    lsPc = "listed" =>
        LET Matches(rep) ==
                /\ lsArgs.label # <<>> => rep.label = lsArgs.label[1]
                /\ lsArgs.start_time # <<>> =>
                        ~StrLess(rep.created_at, lsArgs.start_time[1])
                /\ lsArgs.end_time # <<>> =>
                        ~StrLess(lsArgs.end_time[1], rep.created_at)
            matching == {Summary(rep) : rep \in {x \in CompositeReports : Matches(x)}}
        IN  /\ \A i, j \in DOMAIN lsResult : i # j => lsResult[i].id # lsResult[j].id
            /\ ResultSet \subseteq matching
            /\ \A i, j \in DOMAIN lsResult : i < j => ~Older(lsResult[i], lsResult[j])
            /\ (lsArgs.limit # <<>> /\ lsArgs.limit[1] >= 0) =>
                /\ Len(lsResult) <= lsArgs.limit[1]
                /\ \A m \in matching \ ResultSet, e \in ResultSet : ~Older(e, m)

\* C20, amended: the same, where a label, start_time or end_time that is
\* None or the empty string filters nothing, and a limit that is None, zero
\* or negative truncates nothing; the result holds every matching report
\* stored under a composite key, or the limit newest of them.
ListedFilteredNewestFirst ==
    lsPc = "listed" =>
        LET Matches(rep) ==
                /\ (lsArgs.label # <<>> /\ lsArgs.label[1] # "") =>
                        rep.label = lsArgs.label[1]
                /\ (lsArgs.start_time # <<>> /\ lsArgs.start_time[1] # <<>>) =>
                        ~StrLess(rep.created_at, lsArgs.start_time[1])
                /\ (lsArgs.end_time # <<>> /\ lsArgs.end_time[1] # <<>>) =>
                        ~StrLess(lsArgs.end_time[1], rep.created_at)
            matching == {Summary(rep) : rep \in {x \in CompositeReports : Matches(x)}}
            limited == lsArgs.limit # <<>> /\ lsArgs.limit[1] > 0
        IN  /\ \A i, j \in DOMAIN lsResult : i # j => lsResult[i].id # lsResult[j].id
            /\ ResultSet \subseteq matching
            /\ \A i, j \in DOMAIN lsResult : i < j => ~Older(lsResult[i], lsResult[j])
            /\ limited =>
                /\ Len(lsResult) <= lsArgs.limit[1]
                /\ \A m \in matching \ ResultSet, e \in ResultSet : ~Older(e, m)
                /\ matching \ ResultSet # {} => Len(lsResult) = lsArgs.limit[1]
            /\ ~limited => ResultSet = matching

\* C20 witness: in the log variant, with two reports and their run-id keys
\* in the registry, the older report stored last, a call with a label
\* filter and limit 1 returned the newer report alone.
ListedFilteredNewestFirstWitness ==
    /\ lsPc = "listed"
    /\ lsVariant = "log"
    /\ Len(reports_dict) = 4
    /\ Cardinality(CompositeReports) = 2
    /\ lsArgs.label = <<"all">>
    /\ lsArgs.limit = <<1>>
    /\ \A rep \in CompositeReports : rep.label = "all"
    /\ Len(lsResult) = 1
    /\ lsResult[1].run_id = 1
    /\ lsResult[1].created_at = <<2>>

(***************************************************************************)
(* Launching runs: execute_task_async of both task.py with its arguments,  *)
(* and what the plugin construction of _run_task does to the task          *)
(* configuration it was given.                                             *)
(*                                                                         *)
(* A task definition is [source, analyzer, has_params, params, sinks]:     *)
(* has_params says whether its analyzer mapping has a 'params' key, params *)
(* is the set of keys of that mapping.  Config.get_task returns the task   *)
(* mapping itself, not a copy, so a run launched without an override works *)
(* on the object of the loaded configuration; an override is an object of  *)
(* the caller.  The calls are made one after the other.                    *)
(***************************************************************************)
TaskDefinition(source, analyzer, has_params) ==
    [source |-> source, analyzer |-> analyzer, has_params |-> has_params,
     params |-> IF has_params THEN {"model_name"} ELSE {}, sinks |-> <<"file">>]

\* what the configuration file may define for the task 'daily'
LoadedTasks ==
    {TaskDefinition("source", analyzer, has_params) :
        analyzer \in {"langgraph", "bogus"}, has_params \in BOOLEAN}

\* override_config=None
NoOverride == [source |-> "none", analyzer |-> "none", has_params |-> FALSE,
               params |-> {}, sinks |-> <<>>]

\* override_config={}
EmptyOverride == [source |-> "", analyzer |-> "", has_params |-> FALSE,
                  params |-> {}, sinks |-> <<>>]

\* the override_config arguments: None, an empty mapping, a task definition
LaunchOverrides ==
    {NoOverride, EmptyOverride, TaskDefinition("override_source", "langgraph", TRUE)}

\* `not task_config`: None and the empty mapping
Falsy(task_config) == task_config \in {NoOverride, EmptyOverride}

\* self.config.get_task(task_name): the task object, or None
LoadedTask(config, task_name) ==
    IF task_name \in DOMAIN config THEN config[task_name] ELSE NoOverride

\* where task_config = override_config or self.config.get_task(task_name)
\* comes from: the override object, or the object of the loaded configuration
OverrideIgnored(override_config) == "loaded"

ConfigOrigin(override_config) ==
    IF Falsy(override_config) THEN "loaded" ELSE "override"

\* the value of task_config
ConfigUsed(config, task_name, override_config) ==
    IF ConfigOrigin(override_config) = "override"
    THEN override_config
    ELSE LoadedTask(config, task_name)

RaiseIgnored(task_config) == FALSE

\* if not task_config: raise ValueError
TaskNotFound(task_config) == Falsy(task_config)

NoCall == [task_name |-> "", override_config |-> NoOverride, result |-> 0]

\* the run a launch creates: run_info with the arguments of its thread
LaunchedRun(v, run_id, task_name, task_config, origin) ==
    [info |-> NewRun(v, run_id, task_name), task_config |-> task_config,
     origin |-> origin, pc |-> "start"]

\* create_analyzer: analyzer_params = analyzer_config.get('params', {}) is the
\* mapping of the task object when it has one; the log variant adds a key to
\* it before the analyzer is constructed
AnalyzerParamsAfter(v, task_config) ==
    IF v = "log" /\ task_config.analyzer = "langgraph" /\ task_config.has_params
    THEN [task_config EXCEPT !.params = @ \cup {"progress_callback"}]
    ELSE task_config

LaunchInit ==
    /\ lnVariant \in Variants
    /\ \E task \in LoadedTasks : loaded = [daily |-> task]
    /\ loaded0 = loaded
    /\ lnCounter = 0
    /\ lnRuns = <<>>
    /\ lnThreads = {}
    /\ lnCall = NoCall

LaunchOff ==
    /\ lnVariant = "off"
    /\ loaded = <<>>
    /\ loaded0 = <<>>
    /\ lnCounter = 0
    /\ lnRuns = <<>>
    /\ lnThreads = {}
    /\ lnCall = NoCall

\* one call of execute_task_async, from its first line to its return or raise
ExecuteTaskAsync(task_name, override_config) ==
    /\ lnVariant \in Variants
    /\ lnCounter < MaxLaunches
    /\ LET task_config == ConfigUsed(loaded, task_name, override_config)
           run_id == lnCounter + 1
       IN  IF TaskNotFound(task_config)
           THEN /\ lnCall' = [task_name |-> task_name,
                              override_config |-> override_config, result |-> 0]
                /\ UNCHANGED <<lnCounter, lnRuns, lnThreads>>
           ELSE /\ lnCounter' = run_id
                /\ lnRuns' = Append(lnRuns,
                        LaunchedRun(lnVariant, run_id, task_name, task_config,
                                    ConfigOrigin(override_config)))
                /\ lnThreads' = lnThreads \cup {run_id}
                /\ lnCall' = [task_name |-> task_name,
                              override_config |-> override_config, result |-> run_id]
    /\ UNCHANGED <<lnVariant, loaded, loaded0>>

\* the task_config object of a run as it is now
TaskConfigOf(r) ==
    IF lnRuns[r].origin = "loaded"
    THEN loaded[lnRuns[r].info.task_name]
    ELSE lnRuns[r].task_config

\* _run_task: the plugins are created from task_config; create_source or
\* the analyzer's constructor may raise, which fails the run
CreatePlugins(r) ==
    /\ r \in lnThreads
    /\ lnRuns[r].pc = "start"
    /\ \E source_ok \in BOOLEAN :
        LET task_config == TaskConfigOf(r)
            after == IF source_ok
                     THEN AnalyzerParamsAfter(lnVariant, task_config)
                     ELSE task_config
            built == source_ok /\ task_config.analyzer = "langgraph"
        IN  /\ lnRuns' = [lnRuns EXCEPT
                    ![r].task_config = after,
                    ![r].pc = IF built THEN "built" ELSE "ended",
                    ![r].info.status = IF built THEN @ ELSE "failed",
                    ![r].info.stage = IF built THEN "collecting" ELSE "failed"]
            /\ loaded' = IF lnRuns[r].origin = "loaded"
                         THEN [loaded EXCEPT ![lnRuns[r].info.task_name] = after]
                         ELSE loaded
    /\ UNCHANGED <<lnVariant, loaded0, lnCounter, lnThreads, lnCall>>

\* _run_task: collect, analyze, save; the run completes or fails
RunPipeline(r) ==
    /\ r \in lnThreads
    /\ lnRuns[r].pc = "built"
    /\ \E status \in {"completed", "failed"} :
        lnRuns' = [lnRuns EXCEPT
            ![r].pc = "ended",
            ![r].info.status = status,
            ![r].info.stage = IF status = "completed" THEN "finished" ELSE "failed"]
    /\ UNCHANGED <<lnVariant, loaded, loaded0, lnCounter, lnThreads, lnCall>>

LaunchNext ==
    \/ \E task_name \in TaskArgs, override_config \in LaunchOverrides :
            ExecuteTaskAsync(task_name, override_config)
                /\ UNCHANGED <<chunkVars, anVars, dbVars, exVars, msVars, lsVars, srcVars, fmtVars>>
    \/ \E r \in DOMAIN lnRuns :
            CreatePlugins(r) /\ UNCHANGED <<chunkVars, anVars, dbVars, exVars, msVars, lsVars, srcVars, fmtVars>>
    \/ \E r \in DOMAIN lnRuns :
            RunPipeline(r) /\ UNCHANGED <<chunkVars, anVars, dbVars, exVars, msVars, lsVars, srcVars, fmtVars>>

\* C22: a call of execute_task_async with a task name that is not in the
\* configuration and no override raises, and that step adds no run record,
\* starts no thread and leaves the run id counter alone; the ids that
\* launches return are therefore 1, 2, ... over the successful launches only.
UnknownTaskChangesNothing ==
    /\ [](/\ lnCounter = Len(lnRuns)
          /\ lnThreads = DOMAIN lnRuns
          /\ \A r \in DOMAIN lnRuns : lnRuns[r].info.id = r)
    /\ [][\A task_name \in TaskArgs \ DOMAIN loaded :
            ExecuteTaskAsync(task_name, NoOverride) =>
                /\ lnCall'.task_name = task_name
                /\ lnCall'.result = 0
                /\ UNCHANGED <<lnCounter, lnRuns, lnThreads, loaded>>]_vars

\* C22 witness: after one launch, a call for the unknown task 'ghost' without
\* an override has raised.
UnknownTaskChangesNothingWitness ==
    /\ lnCall.task_name = "ghost"
    /\ lnCall.override_config = NoOverride
    /\ lnCall.result = 0
    /\ Len(lnRuns) = 1
    /\ lnCounter = 1

\* the run that the call of this step has launched is run_id, and its
\* task_config is the override object
LaunchedFromOverride(override_config) ==
    LET run_id == Len(lnRuns) + 1
    IN  /\ lnCall'.result = run_id
        /\ Len(lnRuns') = run_id
        /\ lnRuns'[run_id].origin = "override"
        /\ lnRuns'[run_id].task_config = override_config

\* C23 as claimed: every call of execute_task_async that is given an override
\* (any value but None, the empty mapping included) launches a run whose
\* task_config is the override, whether the task name is configured or not.
OverrideAlwaysUsed ==
    [][\A task_name \in TaskArgs, override_config \in LaunchOverrides \ {NoOverride} :
            ExecuteTaskAsync(task_name, override_config) =>
                LaunchedFromOverride(override_config)]_vars

\* C23 amended: every call that is given a non-empty override launches a run
\* whose task_config is the override, whether the task name is configured or
\* not, and the plugins of that run are created from the override's source,
\* analyzer and sinks; a call with None or with the empty mapping uses the
\* named configuration and raises when the name is not configured.
NonEmptyOverrideUsed ==
    /\ [][\A task_name \in TaskArgs, override_config \in LaunchOverrides :
            ExecuteTaskAsync(task_name, override_config) =>
                IF ~Falsy(override_config)
                THEN LaunchedFromOverride(override_config)
                ELSE IF task_name \in DOMAIN loaded
                THEN /\ lnCall'.result = Len(lnRuns) + 1
                     /\ lnRuns'[Len(lnRuns) + 1].origin = "loaded"
                     /\ lnRuns'[Len(lnRuns) + 1].task_config = loaded[task_name]
                ELSE lnCall'.result = 0 /\ lnRuns' = lnRuns]_vars
    /\ [][\A r \in DOMAIN lnRuns :
            /\ lnRuns'[r].origin = lnRuns[r].origin
            /\ lnRuns[r].origin = "override" =>
                /\ lnRuns'[r].task_config.source = lnRuns[r].task_config.source
                /\ lnRuns'[r].task_config.analyzer = lnRuns[r].task_config.analyzer
                /\ lnRuns'[r].task_config.sinks = lnRuns[r].task_config.sinks
                /\ lnRuns'[r].pc = "built" =>
                        lnRuns[r].task_config.analyzer = "langgraph"]_vars

\* C23 witness: the configured task has an analyzer that cannot be created;
\* a run of it with an override and a run of the unknown task 'ghost' with an
\* override have both built their pipeline from the override.
NonEmptyOverrideUsedWitness ==
    /\ loaded0["daily"].analyzer = "bogus"
    /\ Len(lnRuns) = 2
    /\ lnRuns[1].info.task_name = "daily"
    /\ lnRuns[2].info.task_name = "ghost"
    /\ \A r \in {1, 2} :
        /\ lnRuns[r].origin = "override"
        /\ lnRuns[r].pc = "built"
        /\ lnRuns[r].task_config.source = "override_source"

\* C24 as claimed: whatever runs are launched, with or without an override,
\* and however they end, every task definition of the loaded configuration,
\* its analyzer params included, is equal to what it was when it was loaded.
LoadedConfigNeverMutated == loaded = loaded0

(***************************************************************************)
(* Database sources: one collect() call of PostgreSQLSource, MySQLSource   *)
(* and RedisSource with the connections it opens.  srcCfg is the           *)
(* configured source (its kind, whether `database` is set, the number of   *)
(* databases of the server besides the connected one); srcRun is the       *)
(* call: where it is, the state of the main connection object, the states  *)
(* of the per-database connection objects, the length of                   *)
(* result['errors'] and whether an exception is propagating.               *)
(***************************************************************************)
SourceKinds == {"postgresql", "mysql", "redis"}

\* [:3]: at most three other databases are visited
OtherDbsLimit == 3

\* other_dbs: the databases of result['databases'] besides target_db
OtherDbs(n) == IF n < OtherDbsLimit THEN n ELSE OtherDbsLimit

NoRun == [pc |-> "off", connection |-> "none", i |-> 0, other_conn |-> <<>>,
          errors |-> 0, raising |-> FALSE]

CollectInit ==
    /\ srcCfg \in [kind : SourceKinds, database : BOOLEAN, others : 0..MaxOtherDbs]
    /\ srcRun = [NoRun EXCEPT !.pc = "idle"]

CollectOff ==
    /\ srcCfg = [kind |-> "off", database |-> FALSE, others |-> 0]
    /\ srcRun = NoRun

\* the finally block is entered; with raising the exception goes on after it
ToFinally(run, raising) == [run EXCEPT !.pc = "finally", !.raising = raising]

\* result['errors'].append(...)
AppendError(run) == [run EXCEPT !.errors = @ + 1]

\* conn = self._get_connection() / client = self._get_client().  psycopg2 and
\* pymysql connect or raise; redis.Redis(...) gives a client object, which
\* is stored before ping() may raise.  PostgreSQL turns a failure into
\* ConnectionError, which collect re-raises; the other two record an error.
GetConnection ==
    /\ srcRun.pc = "idle"
    /\ \E ok \in BOOLEAN :
        srcRun' =
            IF ok THEN [srcRun EXCEPT !.pc = "queries", !.connection = "open"]
            ELSE IF srcCfg.kind = "postgresql" THEN ToFinally(srcRun, TRUE)
            ELSE IF srcCfg.kind = "mysql" THEN ToFinally(AppendError(srcRun), FALSE)
            ELSE ToFinally(AppendError([srcRun EXCEPT !.connection = "open"]), FALSE)
    /\ UNCHANGED srcCfg

\* the query blocks on the main connection: each has its own try/except that
\* records an error; MySQL's cursor() and first execute stand outside of
\* them and end the collection through the outer except
QueryMain ==
    /\ srcRun.pc = "queries"
    /\ \E outcome \in {"ok", "failed", "escaped"} :
        /\ outcome = "escaped" => srcCfg.kind = "mysql"
        /\ srcRun' =
            IF outcome = "escaped" THEN ToFinally(AppendError(srcRun), FALSE)
            ELSE LET run == IF outcome = "failed" THEN AppendError(srcRun) ELSE srcRun
                 IN  IF srcCfg.kind = "postgresql"
                     THEN [run EXCEPT !.pc = "tables"]
                     ELSE ToFinally(run, FALSE)
    /\ UNCHANGED srcCfg

\* PostgreSQL, table block: the query on the main connection; when it has
\* succeeded and no database is configured, the other databases are visited
QueryTables ==
    /\ srcRun.pc = "tables"
    /\ \E ok \in BOOLEAN :
        srcRun' =
            IF ~ok THEN ToFinally(AppendError(srcRun), FALSE)
            ELSE IF ~srcCfg.database /\ OtherDbs(srcCfg.others) > 0
            THEN [srcRun EXCEPT !.pc = "other", !.i = 1]
            ELSE ToFinally(srcRun, FALSE)
    /\ UNCHANGED srcCfg

\* the loop goes to the next database, or ends
NextOtherDb(run) ==
    IF run.i < OtherDbs(srcCfg.others)
    THEN [run EXCEPT !.pc = "other", !.i = @ + 1]
    ELSE ToFinally(run, FALSE)

\* other_conn = psycopg2.connect(database=db_name, ...)
ConnectOther ==
    /\ srcRun.pc = "other"
    /\ \E ok \in BOOLEAN :
        srcRun' =
            IF ok
            THEN [srcRun EXCEPT !.pc = "other_query",
                                !.other_conn = Append(@, "open")]
            ELSE NextOtherDb(AppendError(
                    [srcRun EXCEPT !.other_conn = Append(@, "none")]))
    /\ UNCHANGED srcCfg

\* with other_conn.cursor() ...: execute, fetchall; other_conn.close()
\* follows the block and is skipped when the block raises
CloseOther(run, ok) ==
    IF ok THEN [run EXCEPT !.other_conn[run.i] = "closed"] ELSE AppendError(run)

QueryOther ==
    /\ srcRun.pc = "other_query"
    /\ \E ok \in BOOLEAN : srcRun' = NextOtherDb(CloseOther(srcRun, ok))
    /\ UNCHANGED srcCfg

\* finally: the main connection is closed when it is open
CloseMain(run) ==
    IF run.connection = "open" THEN [run EXCEPT !.connection = "closed"] ELSE run

Finally ==
    /\ srcRun.pc = "finally"
    /\ srcRun' = [CloseMain(srcRun) EXCEPT
                    !.pc = IF srcRun.raising THEN "raised" ELSE "returned"]
    /\ UNCHANGED srcCfg

CollectNext ==
    \/ GetConnection /\ UNCHANGED <<chunkVars, anVars, dbVars, exVars, msVars, lsVars, lnVars, fmtVars>>
    \/ QueryMain /\ UNCHANGED <<chunkVars, anVars, dbVars, exVars, msVars, lsVars, lnVars, fmtVars>>
    \/ QueryTables /\ UNCHANGED <<chunkVars, anVars, dbVars, exVars, msVars, lsVars, lnVars, fmtVars>>
    \/ ConnectOther /\ UNCHANGED <<chunkVars, anVars, dbVars, exVars, msVars, lsVars, lnVars, fmtVars>>
    \/ QueryOther /\ UNCHANGED <<chunkVars, anVars, dbVars, exVars, msVars, lsVars, lnVars, fmtVars>>
    \/ Finally /\ UNCHANGED <<chunkVars, anVars, dbVars, exVars, msVars, lsVars, lnVars, fmtVars>>

\* collect() has returned or raised
CollectEnded == srcRun.pc \in {"returned", "raised"}

\* C25 as claimed: when collect() has returned or raised, the main connection
\* and every per-database connection it opened are closed, whichever
\* connection attempt or query failed.
AllConnectionsClosed ==
    CollectEnded =>
        /\ srcRun.connection # "open"
        /\ \A k \in DOMAIN srcRun.other_conn : srcRun.other_conn[k] # "open"

(***************************************************************************)
(* The layout pass of the structured analyzer: the line loop and the       *)
(* final clean-up of LangGraphAnalyzer._force_format_report (db variant).  *)
(*                                                                         *)
(* A text is the sequence of its lines ('\n'.join / split('\n')); a line   *)
(* is a section header "#" ("## Head"), a horizontal rule "---", a list    *)
(* item "1." to "4." whose text opens with emphasis markup                 *)
(* ("1. **one**"), a text line "t" (one sentence without closing           *)
(* punctuation), or the blank line "".  On such lines the earlier steps    *)
(* of the function only add blank lines, which the line loop skips.  fmt   *)
(* is one call: the content given and the text returned.                   *)
(***************************************************************************)
ReportLines == {"#", "---", "1.", "2.", "3.", "4.", "t", ""}

ReportTexts == UNION {[1..n -> ReportLines] : n \in 1..MaxLines}

\* line_stripped.startswith('#')
IsTitle(line) == line = "#"

\* line_stripped.startswith('---')
IsHr(line) == line = "---"

\* re.match(r'^(\d+)\.\s+', line_stripped): the number, or 0
ListNum(line) ==
    CASE line = "1." -> 1
      [] line = "2." -> 2
      [] line = "3." -> 3
      [] line = "4." -> 4
      [] OTHER -> 0

\* the loop over the lines from line i on, prev_line being the last line
\* that was not blank (<<>> for None)
RECURSIVE LineLoop(_, _, _)
LineLoop(lines, i, prev_line) ==
    IF i > Len(lines) THEN <<>>
    ELSE IF lines[i] = "" THEN LineLoop(lines, i + 1, prev_line)
    ELSE LET line == lines[i]
             prev == IF prev_line = <<>> THEN "" ELSE prev_line[1]
             before_title == IsTitle(line) /\ prev_line # <<>> /\ ~IsTitle(prev)
             before_hr == IsHr(line) /\ prev_line # <<>> /\ ~IsHr(prev)
             between == \/ ListNum(line) = 2 /\ ListNum(prev) = 1
                        \/ ListNum(line) = 4 /\ ListNum(prev) = 3
             after_hr == IsHr(line) /\ i + 1 <= Len(lines) /\ lines[i + 1] # ""
         IN  (IF before_title THEN <<"">> ELSE <<>>)
                \o (IF before_hr THEN <<"">> ELSE <<>>)
                \o (IF between THEN <<"">> ELSE <<>>)
                \o <<line>>
                \o (IF after_hr THEN <<"">> ELSE <<>>)
                \o LineLoop(lines, i + 1, <<line>>)

\* the index of the first line after i that is not blank, or Len + 1
RECURSIVE NextNonBlank(_, _)
NextNonBlank(lines, i) ==
    IF i + 1 > Len(lines) THEN Len(lines) + 1
    ELSE IF lines[i + 1] # "" THEN i + 1
    ELSE NextNonBlank(lines, i + 1)

\* re.sub(r'(a\.\s+[^\n]+)(\n+)(b\.\s+)', r'\1\n\n\3', result): item a and
\* item b with nothing but line ends between them get one blank line
RECURSIVE OneBlankBetween(_, _, _, _)
OneBlankBetween(lines, i, a, b) ==
    IF i > Len(lines) THEN <<>>
    ELSE LET j == NextNonBlank(lines, i)
         IN  IF ListNum(lines[i]) = a /\ j <= Len(lines) /\ ListNum(lines[j]) = b
             THEN <<lines[i], "">> \o OneBlankBetween(lines, j, a, b)
             ELSE <<lines[i]>> \o OneBlankBetween(lines, i + 1, a, b)

\* the blank line i stands alone between item 1 and item 2 or between item
\* 3 and item 4: it is replaced by __SPACE_1_2__ / __SPACE_3_4__
Protected(lines, i) ==
    /\ 1 < i /\ i < Len(lines)
    /\ lines[i] = ""
    /\ \/ ListNum(lines[i - 1]) = 1 /\ ListNum(lines[i + 1]) = 2
       \/ ListNum(lines[i - 1]) = 3 /\ ListNum(lines[i + 1]) = 4

\* re.sub(r'\n{2,}', '\n', result) around the protected places: every run of
\* line ends becomes one line end, so every blank line that is not
\* protected goes
RECURSIVE Collapse(_, _)
Collapse(lines, i) ==
    IF i > Len(lines) THEN <<>>
    ELSE IF lines[i] = "" /\ ~Protected(lines, i)
    THEN Collapse(lines, i + 1)
    ELSE <<lines[i]>> \o Collapse(lines, i + 1)

\* result.strip(): no blank line at either end
RECURSIVE Strip(_)
Strip(lines) ==
    IF lines = <<>> THEN <<>>
    ELSE IF Head(lines) = "" THEN Strip(Tail(lines))
    ELSE IF lines[Len(lines)] = "" THEN Strip(SubSeq(lines, 1, Len(lines) - 1))
    ELSE lines

\* the ninth step and the clean-up of _force_format_report
ForceFormatLines(lines) ==
    LET formatted_lines == LineLoop(lines, 1, <<>>)
        one_two == OneBlankBetween(formatted_lines, 1, 1, 2)
        three_four == OneBlankBetween(one_two, 1, 3, 4)
    IN  Strip(Collapse(three_four, 1))

NoFormat == [pc |-> "off", content |-> <<>>, result |-> <<>>]

FormatInit ==
    \E lines \in ReportTexts : fmt = [pc |-> "given", content |-> lines, result |-> <<>>]

FormatOff == fmt = NoFormat

CallForceFormat ==
    /\ fmt.pc = "given"
    /\ fmt' = [fmt EXCEPT !.pc = "formatted", !.result = ForceFormatLines(fmt.content)]

FormatNext ==
    CallForceFormat /\ UNCHANGED <<chunkVars, anVars, dbVars, exVars, msVars, lsVars, lnVars, srcVars>>

\* the blank lines right before / right after line i of a text
BlanksBefore(lines, i) ==
    Cardinality({k \in 1..(i - 1) : \A m \in k..(i - 1) : lines[m] = ""})

BlanksAfter(lines, i) ==
    Cardinality({k \in (i + 1)..Len(lines) : \A m \in (i + 1)..k : lines[m] = ""})

\* C32 as claimed: in the text returned, every section header that is not
\* the first line has exactly one blank line before it, every horizontal
\* rule has exactly one blank line before it (unless it is the first line)
\* and after it (unless it is the last), and two list items that follow one
\* another have a blank line between them only if they are items 1 and 2 or
\* items 3 and 4.
HeadersAndRulesSpaced ==
    fmt.pc = "formatted" =>
        LET out == fmt.result
        IN  \A i \in 1..Len(out) :
                /\ (IsTitle(out[i]) /\ i > 1) => BlanksBefore(out, i) = 1
                /\ (IsHr(out[i]) /\ i > 1) => BlanksBefore(out, i) = 1
                /\ (IsHr(out[i]) /\ i < Len(out)) => BlanksAfter(out, i) = 1
                /\ (ListNum(out[i]) > 0 /\ i + 2 <= Len(out)
                        /\ out[i + 1] = "" /\ ListNum(out[i + 2]) > 0) =>
                        <<ListNum(out[i]), ListNum(out[i + 2])>> \in {<<1, 2>>, <<3, 4>>}

(***************************************************************************)
(* Specifications.                                                         *)
(***************************************************************************)
SpecChunkInit == ChunkInit /\ AnalyzeOff /\ DbOff /\ ExecOff /\ MultiOff /\ ListOff /\ LaunchOff /\ CollectOff /\ FormatOff

SpecChunk == SpecChunkInit /\ [][ChunkNext]_vars

SpecAnalyzeInit == AnalyzeInit /\ ChunkOff /\ DbOff /\ ExecOff /\ MultiOff /\ ListOff /\ LaunchOff /\ CollectOff /\ FormatOff

SpecAnalyze == SpecAnalyzeInit /\ [][AnalyzeNext]_vars

SpecAnalyzeFairInit ==
    EndpointAnalyzeInit /\ ChunkOff /\ DbOff /\ ExecOff /\ MultiOff /\ ListOff /\ LaunchOff
        /\ CollectOff /\ FormatOff

SpecAnalyzeFair == SpecAnalyzeFairInit /\ [][AnalyzeNext]_vars /\ AnalyzeFairness

SpecDbInit == DbInit /\ ChunkOff /\ AnalyzeOff /\ ExecOff /\ MultiOff /\ ListOff /\ LaunchOff /\ CollectOff /\ FormatOff

SpecDb == SpecDbInit /\ [][DbNext]_vars

SpecExecInit == ExecInit /\ ChunkOff /\ AnalyzeOff /\ DbOff /\ MultiOff /\ ListOff /\ LaunchOff /\ CollectOff /\ FormatOff

SpecExec == SpecExecInit /\ [][ExecNext]_vars

SpecExecFairInit ==
    ExecGatedInit /\ ChunkOff /\ AnalyzeOff /\ DbOff /\ MultiOff /\ ListOff /\ LaunchOff
        /\ CollectOff /\ FormatOff

SpecExecFair == SpecExecFairInit /\ [][ExecNext]_vars /\ ExecFairness

SpecMultiInit == MultiInit /\ ChunkOff /\ AnalyzeOff /\ DbOff /\ ExecOff /\ ListOff /\ LaunchOff /\ CollectOff /\ FormatOff

SpecMulti == SpecMultiInit /\ [][MultiNext]_vars

SpecListInit ==
    ListInit /\ ChunkOff /\ AnalyzeOff /\ DbOff /\ ExecOff /\ MultiOff /\ LaunchOff /\ CollectOff /\ FormatOff

SpecList == SpecListInit /\ [][ListNext]_vars

SpecLaunchInit ==
    LaunchInit /\ ChunkOff /\ AnalyzeOff /\ DbOff /\ ExecOff /\ MultiOff /\ ListOff /\ CollectOff /\ FormatOff

SpecLaunch == SpecLaunchInit /\ [][LaunchNext]_vars

SpecCollectInit ==
    CollectInit /\ ChunkOff /\ AnalyzeOff /\ DbOff /\ ExecOff /\ MultiOff /\ ListOff /\ LaunchOff /\ FormatOff

SpecCollect == SpecCollectInit /\ [][CollectNext]_vars

SpecFormatInit ==
    FormatInit /\ ChunkOff /\ AnalyzeOff /\ DbOff /\ ExecOff /\ MultiOff /\ ListOff /\ LaunchOff
        /\ CollectOff

SpecFormat == SpecFormatInit /\ [][FormatNext]_vars

=============================================================================
